---- MODULE Spec2Model ----
(***************************************************************************)
(* Model of batch/src/index.ts of kanto-fab-event-ical: the event          *)
(* normalisation and deduplication pipeline (scrapeEventFinder,            *)
(* fetchExternalEvents, parseICalEvents, removeDuplicateExternalEvents,    *)
(* removeDuplicateEvents, isDuplicateEvent, calculateStringSimilarity).    *)
(*                                                                         *)
(* Strings are sequences of UTF-16 code units; a code unit is written as a *)
(* one-letter string, and a Japanese code unit as "uXXXX".  Instants       *)
(* (Date.getTime()) are counted in minutes, the unit of JST_OFFSET.        *)
(* A similarity (a JS number in [0,1]) is the exact fraction num/den.      *)
(***************************************************************************)
EXTENDS Integers, Sequences, FiniteSets, TLC

VARIABLES
    pc,                 \* position of the scheduled() run
    clock,              \* what new Date() returns, in minutes
    env,                \* env.ENV: "cloudflare", "local" or "undefined"
    officialEvents,     \* scrapeEventFinder: events
    currentPage,        \* scrapeEventFinder: currentPage
    feedIdx,            \* fetchExternalEvents: index of the next feed
    allExternalEvents,  \* fetchExternalEvents: allExternalEvents
    uniqueEvents,       \* removeDuplicateEvents: the returned collection
    duplicateCount,     \* removeDuplicateEvents: duplicateCount
    mergeNow,           \* removeDuplicateEvents: now
    probe               \* one call of a pure function, with its result

vars == <<pc, clock, env, officialEvents, currentPage, feedIdx,
          allExternalEvents, uniqueEvents, duplicateCount, mergeNow, probe>>

pipelineVars == <<pc, clock, env, officialEvents, currentPage, feedIdx,
                  allExternalEvents, uniqueEvents, duplicateCount, mergeNow>>

(***************************************************************************)
(* Strings                                                                 *)
(***************************************************************************)

Min2(a, b) == IF a <= b THEN a ELSE b

Max2(a, b) == IF a >= b THEN a ELSE b

\* the code units toLowerCase changes: A-Z (the Japanese code units of the
\* keyword lists have no lower case)
UpperToLower ==
    "A" :> "a" @@ "B" :> "b" @@ "C" :> "c" @@ "D" :> "d" @@ "E" :> "e" @@
    "F" :> "f" @@ "G" :> "g" @@ "H" :> "h" @@ "I" :> "i" @@ "J" :> "j" @@
    "K" :> "k" @@ "L" :> "l" @@ "M" :> "m" @@ "N" :> "n" @@ "O" :> "o" @@
    "P" :> "p" @@ "Q" :> "q" @@ "R" :> "r" @@ "S" :> "s" @@ "T" :> "t" @@
    "U" :> "u" @@ "V" :> "v" @@ "W" :> "w" @@ "X" :> "x" @@ "Y" :> "y" @@
    "Z" :> "z"

\* String.prototype.toLowerCase on one code unit
LowerChar(c) == IF c \in DOMAIN UpperToLower THEN UpperToLower[c] ELSE c

toLowerCase(s) == [i \in 1..Len(s) |-> LowerChar(s[i])]

\* String.prototype.includes
includes(s, keyword) ==
    \E i \in 1..(Len(s) - Len(keyword) + 1) :
        \A k \in 1..Len(keyword) : s[i + k - 1] = keyword[k]

(***************************************************************************)
(* calculateStringSimilarity                                               *)
(***************************************************************************)

Min3(a, b, c) == Min2(a, Min2(b, c))

\* matrix[i][j] of one cell, from matrix[i-1][j], matrix[i][j-1] and
\* matrix[i-1][j-1]
MatrixCell_subst(same, up, left, diag) == IF same THEN diag ELSE diag + 1

MatrixCell(same, up, left, diag) ==
    IF same THEN diag ELSE Min3(up + 1, left + 1, diag + 1)

\* Row i of the matrix (inner loop over j), given row i-1; column j of a row
\* is held at index j+1.  cur holds columns 0..j-1 of row i.
RECURSIVE MatrixRow(_, _, _, _, _)
MatrixRow(str1, str2, i, prev, cur) ==
    LET j == Len(cur)
    IN IF j > Len(str2) THEN cur
       ELSE MatrixRow(str1, str2, i, prev,
                Append(cur, MatrixCell(str1[i] = str2[j],
                                       prev[j + 1], cur[j], prev[j])))

\* Rows i..len1 (outer loop over i); matrix holds rows 0..i-1, row i at
\* index i+1.
RECURSIVE MatrixRows(_, _, _)
MatrixRows(str1, str2, matrix) ==
    LET i == Len(matrix)
    IN IF i > Len(str1) THEN matrix
       ELSE MatrixRows(str1, str2,
                Append(matrix, MatrixRow(str1, str2, i, matrix[i], <<i>>)))

\* matrix[len1][len2], from row 0 = [0, 1, ..., len2]
MatrixDistance(str1, str2) ==
    MatrixRows(str1, str2,
               <<[j \in 1..(Len(str2) + 1) |-> j - 1]>>)[Len(str1) + 1][Len(str2) + 1]

ExactlyOne == [num |-> 1, den |-> 1]

ExactlyZero == [num |-> 0, den |-> 1]

\* the empty test ahead of the equality test
calculateStringSimilarity_emptyFirst(str1, str2) ==
    IF Len(str1) = 0 \/ Len(str2) = 0 THEN ExactlyZero
    ELSE IF str1 = str2 THEN ExactlyOne
    ELSE LET maxLength == Max2(Len(str1), Len(str2))
         IN [num |-> maxLength - MatrixDistance(str1, str2), den |-> maxLength]

\* 1 - matrix[len1][len2] / maxLength is the fraction
\* (maxLength - matrix[len1][len2]) / maxLength
calculateStringSimilarity(str1, str2) ==
    IF str1 = str2 THEN ExactlyOne
    ELSE IF Len(str1) = 0 \/ Len(str2) = 0 THEN ExactlyZero
    ELSE LET maxLength == Max2(Len(str1), Len(str2))
         IN [num |-> maxLength - MatrixDistance(str1, str2), den |-> maxLength]

\* >= 0.5
GreaterThanHalf_orEqual(sim) == 2 * sim.num >= sim.den

\* similarity > 0.5.  The double 1 - d/m exceeds 0.5 exactly when the fraction
\* does: d/m = 1/2 is exact in binary floating point, and any other d/m is
\* at least 1/(2m) away from 1/2.
GreaterThanHalf(sim) == 2 * sim.num > sim.den

(***************************************************************************)
(* isDuplicateEvent                                                        *)
(***************************************************************************)

\* interface FaBEvent
FaBEvent(title, eventType, startDatetime, location, format, details) ==
    [title |-> title, eventType |-> eventType, startDatetime |-> startDatetime,
     location |-> location, format |-> format, details |-> details]

nonGameKeywords ==
    <<<<"u5b9a", "u4f11", "u65e5">>, <<"u4f11", "u307f">>, <<"u4f11", "u696d">>, <<"c", "l", "o", "s", "e", "d">>>>

\* looks at the title only
isNonGameEvent_titleOnly(event) ==
    \E k \in 1..Len(nonGameKeywords) :
        includes(toLowerCase(event.title), nonGameKeywords[k])

isNonGameEvent(event) ==
    \E k \in 1..Len(nonGameKeywords) :
        \/ includes(toLowerCase(event.title), nonGameKeywords[k])
        \/ includes(toLowerCase(event.format), nonGameKeywords[k])

\* A Date: an instant, or an Invalid Date, whose getTime() is NaN
DateOf(t) == [isNaN |-> FALSE, time |-> t]

InvalidDate == [isNaN |-> TRUE, time |-> 0]

\* Math.abs(event1.startDatetime.getTime() - event2.startDatetime.getTime()),
\* for two valid dates
timeDiff_noAbs(event1, event2) ==
    event1.startDatetime.time - event2.startDatetime.time

timeDiff(event1, event2) ==
    LET d == event1.startDatetime.time - event2.startDatetime.time
    IN IF d < 0 THEN 0 - d ELSE d

\* 30 * 60 * 1000 ms
timeThreshold == 30

\* a difference of exactly the threshold fails too
timeDiffExceedsThreshold_atThreshold(event1, event2) ==
    /\ ~event1.startDatetime.isNaN
    /\ ~event2.startDatetime.isNaN
    /\ timeDiff(event1, event2) >= timeThreshold

\* timeDiff > timeThreshold; a NaN timeDiff compares false
timeDiffExceedsThreshold(event1, event2) ==
    /\ ~event1.startDatetime.isNaN
    /\ ~event2.startDatetime.isNaN
    /\ timeDiff(event1, event2) > timeThreshold

venueNames ==
    <<<<"f", "a", "b", "l", "e">>, <<"t", "o", "k", "y", "o", " ", "f", "a", "b">>, <<"c", "a", "r", "d", "o", "n">>, <<"a", "m", "e", "n", "i", "t", "y", " ", "d", "r", "e", "a", "m">>>>

isSameVenue(event1, event2) ==
    LET location1 == toLowerCase(event1.location)
        location2 == toLowerCase(event2.location)
        title1 == toLowerCase(event1.title)
        title2 == toLowerCase(event2.title)
    IN \/ \E v \in 1..Len(venueNames) :
            includes(location1, venueNames[v]) /\ includes(location2, venueNames[v])
       \/ \E v \in 1..Len(venueNames) :
            /\ includes(title1, <<"@">> \o venueNames[v])
            /\ includes(title2, <<"@">> \o venueNames[v])

\* the gate left out
isSameFormat_omitted(event1, event2) == TRUE

isSameFormat(event1, event2) ==
    \/ toLowerCase(event1.format) = toLowerCase(event2.format)
    \/ toLowerCase(event1.eventType) = toLowerCase(event2.eventType)

commonKeywords ==
    <<<<"l", "e", "a", "r", "n", " ", "t", "o", " ", "p", "l", "a", "y">>, <<"a", "r", "m", "o", "r", "y">>, <<"b", "l", "i", "t", "z">>, <<"c", "l", "a", "s", "s", "i", "c", " ", "c", "o", "n", "s", "t", "r", "u", "c", "t", "e", "d">>,
      <<"p", "r", "o", " ", "q", "u", "e", "s", "t">>, <<"d", "r", "a", "f", "t">>, <<"o", "n", " ", "d", "e", "m", "a", "n", "d">>, <<"c", "c">>, <<"l", "l">>, <<"p", "b">>>>

hasCommonKeyword(event1, event2) ==
    LET title1 == toLowerCase(event1.title)
        title2 == toLowerCase(event2.title)
        format1 == toLowerCase(event1.format)
        format2 == toLowerCase(event2.format)
    IN \E k \in 1..Len(commonKeywords) :
          /\ includes(title1, commonKeywords[k]) \/ includes(format1, commonKeywords[k])
          /\ includes(title2, commonKeywords[k]) \/ includes(format2, commonKeywords[k])

isDuplicateEvent(event1, event2) ==
    IF isNonGameEvent(event1) \/ isNonGameEvent(event2) THEN FALSE
    ELSE IF timeDiffExceedsThreshold(event1, event2) THEN FALSE
    ELSE IF ~isSameVenue(event1, event2) THEN FALSE
    ELSE IF ~isSameFormat(event1, event2) THEN FALSE
    ELSE \/ hasCommonKeyword(event1, event2)
         \/ GreaterThanHalf(calculateStringSimilarity(toLowerCase(event1.title),
                                                      toLowerCase(event2.title)))
         \/ GreaterThanHalf(calculateStringSimilarity(toLowerCase(event1.format),
                                                      toLowerCase(event2.format)))

(***************************************************************************)
(* removeDuplicateExternalEvents, removeDuplicateEvents                    *)
(***************************************************************************)

\* the events at the indices K, in order
SubListAtKept(events, K) ==
    [n \in 1..Cardinality(K) |->
        events[CHOOSE i \in K : Cardinality({k \in K : k <= i}) = n]]

\* uniqueEvents.some(existing => isDuplicateEvent(event, existing))
MatchesSome(event, existingEvents) ==
    \E k \in 1..Len(existingEvents) : isDuplicateEvent(event, existingEvents[k])

\* the for loop of removeDuplicateExternalEvents from index i on
RECURSIVE DedupExternalFrom(_, _, _)
DedupExternalFrom(events, i, unique) ==
    IF i > Len(events) THEN unique
    ELSE DedupExternalFrom(events, i + 1,
            IF MatchesSome(events[i], unique) THEN unique
            ELSE Append(unique, events[i]))

\* drops an event that matches any earlier event, kept or not
removeDuplicateExternalEvents_vsEarlier(events) ==
    SubListAtKept(events,
        {i \in DOMAIN events :
            ~\E j \in 1..(i - 1) : isDuplicateEvent(events[i], events[j])})

removeDuplicateExternalEvents(events) == DedupExternalFrom(events, 1, <<>>)

\* 30 * 24 * 60 * 60 * 1000 ms and 180 * 24 * 60 * 60 * 1000 ms
OneMonth == 30 * 24 * 60

SixMonths == 180 * 24 * 60

InTimeRange_noUpper(e, now) ==
    /\ ~e.startDatetime.isNaN
    /\ e.startDatetime.time >= now - OneMonth

InTimeRange_strict(e, now) ==
    /\ ~e.startDatetime.isNaN
    /\ e.startDatetime.time > now - OneMonth
    /\ e.startDatetime.time < now + SixMonths

\* e.startDatetime >= oneMonthAgo && e.startDatetime <= sixMonthsLater;
\* an Invalid Date compares false
InTimeRange(e, now) ==
    /\ ~e.startDatetime.isNaN
    /\ e.startDatetime.time >= now - OneMonth
    /\ e.startDatetime.time <= now + SixMonths

recentExternalEventsOf_unfiltered(externalEvents, now) == externalEvents

recentExternalEventsOf(externalEvents, now) ==
    SelectSeq(externalEvents, LAMBDA e : InTimeRange(e, now))

\* the for loop over officialEvents from index i on
RECURSIVE MergeOfficialFrom(_, _, _, _)
MergeOfficialFrom(official, recent, i, acc) ==
    IF i > Len(official) THEN acc
    ELSE MergeOfficialFrom(official, recent, i + 1,
            IF MatchesSome(official[i], recent)
            THEN [acc EXCEPT !.duplicateCount.removed = @ + 1]
            ELSE [uniqueEvents |-> Append(acc.uniqueEvents, official[i]),
                  duplicateCount |-> [removed |-> acc.duplicateCount.removed,
                                      kept |-> acc.duplicateCount.kept + 1]])

\* official events matched against every external event handed in
removeDuplicateEvents_matchUnfiltered(official, externalEvents, now) ==
    MergeOfficialFrom(official, externalEvents, 1,
       [uniqueEvents |-> recentExternalEventsOf(externalEvents, now),
        duplicateCount |-> [removed |-> 0, kept |-> 0]])

\* the official event wins a tie: a matched external event is dropped
removeDuplicateEvents_officialWins(official, externalEvents, now) ==
    LET recentExternalEvents == recentExternalEventsOf(externalEvents, now)
    IN [uniqueEvents |->
           SelectSeq(recentExternalEvents,
                     LAMBDA e : ~\E k \in DOMAIN official :
                                    isDuplicateEvent(official[k], e))
           \o official,
        duplicateCount |-> [removed |-> 0, kept |-> Len(official)]]

\* returns uniqueEvents, with the duplicateCount it logs; now is new Date()
removeDuplicateEvents(official, externalEvents, now) ==
    LET recentExternalEvents == recentExternalEventsOf(externalEvents, now)
    IN MergeOfficialFrom(official, recentExternalEvents, 1,
          [uniqueEvents |-> recentExternalEvents,
           duplicateCount |-> [removed |-> 0, kept |-> 0]])

(***************************************************************************)
(* parseICalEvents                                                         *)
(***************************************************************************)

\* 9 * 60 minutes; the code adds JST_OFFSET * 60000 ms
JST_OFFSET == 9 * 60

\* a missing env.ENV taken for 'cloudflare'
isCloudflareOf_unlessLocal(envENV) == envENV # "local"

\* (env?.ENV || 'local') === 'cloudflare'
isCloudflareOf(envENV) == envENV = "cloudflare"

\* the Blitz rule ahead of the Classic Constructed rule
detectEventType_blitzFirst(title) ==
    LET titleLower == toLowerCase(title)
    IN IF includes(titleLower, <<"p", "r", "o", "j", "e", "c", "t", " ", "b", "l", "u", "e">>) \/ includes(titleLower, <<"p", "b">>)
       THEN <<"P", "r", "o", "j", "e", "c", "t", " ", "B", "l", "u", "e">>
       ELSE IF includes(titleLower, <<"b", "l", "i", "t", "z">>) \/ includes(titleLower, <<"u30d6", "u30ea", "u30c3", "u30c4">>)
       THEN <<"B", "l", "i", "t", "z">>
       ELSE IF includes(titleLower, <<"c", "c">>) \/ includes(titleLower, <<"c", "l", "a", "s", "s", "i", "c">>)
       THEN <<"C", "l", "a", "s", "s", "i", "c", " ", "C", "o", "n", "s", "t", "r", "u", "c", "t", "e", "d">>
       ELSE IF includes(titleLower, <<"l", "i", "v", "i", "n", "g", " ", "l", "e", "g", "e", "n", "d">>) \/ includes(titleLower, <<"l", "l">>)
       THEN <<"L", "i", "v", "i", "n", "g", " ", "L", "e", "g", "e", "n", "d">>
       ELSE <<"E", "x", "t", "e", "r", "n", "a", "l", " ", "E", "v", "e", "n", "t">>

detectEventType(title) ==
    LET titleLower == toLowerCase(title)
    IN IF includes(titleLower, <<"p", "r", "o", "j", "e", "c", "t", " ", "b", "l", "u", "e">>) \/ includes(titleLower, <<"p", "b">>)
       THEN <<"P", "r", "o", "j", "e", "c", "t", " ", "B", "l", "u", "e">>
       ELSE IF includes(titleLower, <<"c", "c">>) \/ includes(titleLower, <<"c", "l", "a", "s", "s", "i", "c">>)
       THEN <<"C", "l", "a", "s", "s", "i", "c", " ", "C", "o", "n", "s", "t", "r", "u", "c", "t", "e", "d">>
       ELSE IF includes(titleLower, <<"b", "l", "i", "t", "z">>) \/ includes(titleLower, <<"u30d6", "u30ea", "u30c3", "u30c4">>)
       THEN <<"B", "l", "i", "t", "z">>
       ELSE IF includes(titleLower, <<"l", "i", "v", "i", "n", "g", " ", "l", "e", "g", "e", "n", "d">>) \/ includes(titleLower, <<"l", "l">>)
       THEN <<"L", "i", "v", "i", "n", "g", " ", "L", "e", "g", "e", "n", "d">>
       ELSE <<"E", "x", "t", "e", "r", "n", "a", "l", " ", "E", "v", "e", "n", "t">>

\* a feed is known by the part of its URL that the code looks for
sourceNameOf(source) ==
    IF source = "fable.fabtcg" THEN <<"F", "a", "b", "l", "e">>
    ELSE IF source = "tokyofab.info" THEN <<"T", "o", "k", "y", "o", " ", "F", "A", "B">>
    ELSE <<"E", "x", "t", "e", "r", "n", "a", "l">>

\* the event pushed for one occurrence (the same object literal three times)
FeedEvent(summary, location, description, source, startDatetime) ==
    LET eventType == detectEventType(summary)
    IN FaBEvent(summary \o <<"@">> \o sourceNameOf(source),
                eventType,
                startDatetime,
                location,
                IF eventType = <<"E", "x", "t", "e", "r", "n", "a", "l", " ", "E", "v", "e", "n", "t">> THEN <<"E", "x", "t", "e", "r", "n", "a", "l">> ELSE eventType,
                description)

excludeKeywords == <<<<"g", "r", "a", "n", "d", " ", "a", "r", "c", "h", "i", "v", "e">>, <<"u5b9a", "u4f11", "u65e5">>>>

\* looks at the summary only
shouldExclude_summaryOnly(summary, description) ==
    \E k \in 1..Len(excludeKeywords) :
        includes(toLowerCase(summary), excludeKeywords[k])

shouldExclude(summary, description) ==
    \E k \in 1..Len(excludeKeywords) :
        \/ includes(toLowerCase(summary), excludeKeywords[k])
        \/ includes(toLowerCase(description), excludeKeywords[k])

\* isCloudflare ? new Date(d.getTime() + JST_OFFSET * 60000) : d
adjust_always(t, isCloudflare) == t + JST_OFFSET

adjust(t, isCloudflare) == IF isCloudflare THEN t + JST_OFFSET ELSE t

\* the cap on count in the while condition
MaxOccurrences == 50

\* A recurrence rule as ICAL.RecurExpansion shows it: the k-th call of next()
\* (k = 1, 2, ...) throws when k = throwsAt, returns nothing when the rule has
\* count > 0 occurrences and k > count, and otherwise returns
\* dtstart + (k - 1) * interval.  throwsAt = 0: the constructor throws.
RuleThrowsAt(rrule, k) == rrule.throwsAt = k

RuleExhaustedAt(rrule, k) == rrule.count > 0 /\ k > rrule.count

RuleOccurrence(vevent, k) == vevent.startDate + (k - 1) * vevent.rrule.interval

\* occurrenceDate >= now
emitsOccurrence(next, isCloudflare, now) == adjust(next, isCloudflare) >= now

\* the while loop, entered after loop.count iterations with loop.events
\* pushed; returns the events pushed and whether next() threw
RECURSIVE ExpandFrom(_, _, _, _, _)
ExpandFrom(vevent, source, isCloudflare, now, loop) ==
    IF RuleThrowsAt(vevent.rrule, loop.count + 1)
    THEN [events |-> loop.events, threw |-> TRUE]
    ELSE IF \/ RuleExhaustedAt(vevent.rrule, loop.count + 1)
            \/ ~(loop.count < MaxOccurrences)
            \/ ~(RuleOccurrence(vevent, loop.count + 1) <= now + SixMonths)
    THEN [events |-> loop.events, threw |-> FALSE]
    ELSE LET next == RuleOccurrence(vevent, loop.count + 1)
         IN ExpandFrom(vevent, source, isCloudflare, now,
               [count |-> loop.count + 1,
                events |->
                   IF emitsOccurrence(next, isCloudflare, now)
                   THEN Append(loop.events,
                           FeedEvent(vevent.summary, vevent.location,
                                     vevent.description, source,
                                     DateOf(adjust(next, isCloudflare))))
                   ELSE loop.events])

\* the event of the catch block and of the single-event branch
SingleEvent(vevent, source, isCloudflare) ==
    FeedEvent(vevent.summary, vevent.location, vevent.description, source,
              DateOf(adjust(vevent.startDate, isCloudflare)))

\* the try block: the RecurExpansion constructor, then the while loop
ExpandAttempt(vevent, source, isCloudflare, now) ==
    IF RuleThrowsAt(vevent.rrule, 0)
    THEN [events |-> <<>>, threw |-> TRUE]
    ELSE ExpandFrom(vevent, source, isCloudflare, now,
                    [count |-> 0, events |-> <<>>])

\* the try / catch (recurError): the events one recurring VEVENT pushes
ExpandRecurring(vevent, source, isCloudflare, now) ==
    LET r == ExpandAttempt(vevent, source, isCloudflare, now)
    IN IF r.threw
       THEN Append(r.events, SingleEvent(vevent, source, isCloudflare))
       ELSE r.events

\* one iteration of the loop over vevents: the events it pushes
ParseVevent(vevent, source, isCloudflare, now) ==
    IF vevent.throws THEN <<>>
    ELSE IF shouldExclude(vevent.summary, vevent.description) THEN <<>>
    ELSE IF ~(vevent.hasStart /\ vevent.summary # <<>>) THEN <<>>
    ELSE IF vevent.rrule.isRecurring
    THEN ExpandRecurring(vevent, source, isCloudflare, now)
    ELSE <<SingleEvent(vevent, source, isCloudflare)>>

RECURSIVE ParseVeventsFrom(_, _, _, _, _)
ParseVeventsFrom(vevents, source, isCloudflare, now, i) ==
    IF i > Len(vevents) THEN <<>>
    ELSE ParseVevent(vevents[i], source, isCloudflare, now)
         \o ParseVeventsFrom(vevents, source, isCloudflare, now, i + 1)

\* icalText: whether ICAL.parse accepts it, and its VEVENT components
parseICalEvents(icalText, source, envENV, now) ==
    LET events == IF icalText.parseable
                  THEN ParseVeventsFrom(icalText.vevents, source,
                                        isCloudflareOf(envENV), now, 1)
                  ELSE <<>>
    IN removeDuplicateExternalEvents(events)

(***************************************************************************)
(* scrapeEventFinder                                                       *)
(***************************************************************************)

MAX_DISTANCE_KM == 50

\* distances are compared in units of 1/100000 km: 1 mile = 1.60934 km
DistanceScale == 100000

MileScaled == 160934

\* miles compared as if they were kilometres
distanceInKmScaled_noConversion(distance, distanceUnit) == distance * DistanceScale

\* distanceUnit === 'km' ? distance : distance * 1.60934
distanceInKmScaled(distance, distanceUnit) ==
    IF distanceUnit = "km" THEN distance * DistanceScale ELSE distance * MileScaled

\* event.distance_unit || 'km'; a missing unit is the empty string
distanceUnitOf(event) ==
    IF event.distance_unit = "" THEN "km" ELSE event.distance_unit

\* start_time as the API record holds it: an ISO 8601 text of an instant,
\* a text that is no date, null, or no start_time at all
IsoTime(t) == [kind |-> "iso", time |-> t]

BadStartTime == [kind |-> "unparseable", time |-> 0]

NullStartTime == [kind |-> "null", time |-> 0]

NoStartTime == [kind |-> "undefined", time |-> 0]

\* new Date(event.start_time): null is the epoch, undefined and a text that
\* is no date are an Invalid Date
NewDate(start_time) ==
    IF start_time.kind = "iso" THEN DateOf(start_time.time)
    ELSE IF start_time.kind = "null" THEN DateOf(0)
    ELSE InvalidDate

\* one iteration of the loop over data.results: the events it pushes.
\* A missing or empty field of the record is the empty string, a missing
\* distance is 0.
ScrapeResult(event) ==
    IF event.throws THEN <<>>
    ELSE IF distanceInKmScaled(event.distance, distanceUnitOf(event))
               > MAX_DISTANCE_KM * DistanceScale
    THEN <<>>
    ELSE LET eventName == event.nickname
             storeName == event.organiser_name
         IN <<FaBEvent(IF storeName # <<>> THEN eventName \o <<"@">> \o storeName
                                           ELSE eventName,
                       IF event.tournament_type # <<>> THEN event.tournament_type
                                                       ELSE eventName,
                       NewDate(event.start_time),
                       event.address,
                       IF event.format_name # <<>> THEN event.format_name
                       ELSE IF event.tournament_type # <<>> THEN event.tournament_type
                       ELSE <<"U", "n", "k", "n", "o", "w", "n">>,
                       event.description)>>

RECURSIVE ScrapeResultsFrom(_, _)
ScrapeResultsFrom(results, i) ==
    IF i > Len(results) THEN <<>>
    ELSE ScrapeResult(results[i]) \o ScrapeResultsFrom(results, i + 1)

(***************************************************************************)
(* The scheduled run: inputs                                               *)
(***************************************************************************)

\* new Date() when the run starts, and instants named from it
Now0 == 400 * 24 * 60

Day1 == Now0 + 24 * 60

\* the longest the fetch of one feed takes, in minutes
MaxElapsed == 1

EnvModes == {"cloudflare", "local", "undefined"}

EXTERNAL_ICAL_FEEDS == <<"fable.fabtcg", "tokyofab.info">>

NoRule == [isRecurring |-> FALSE, interval |-> 0, count |-> 0, throwsAt |-> 0 - 1]

\* a VEVENT with a title, a location and a start, and no recurrence rule
SingleVevent(summary, location, startDate) ==
    [summary |-> summary, location |-> location, description |-> <<>>,
     hasStart |-> TRUE, startDate |-> startDate, rrule |-> NoRule, throws |-> FALSE]

RecurringVevent(summary, location, startDate, interval, count, throwsAt) ==
    [summary |-> summary, location |-> location, description |-> <<>>,
     hasStart |-> TRUE, startDate |-> startDate,
     rrule |-> [isRecurring |-> TRUE, interval |-> interval, count |-> count,
                throwsAt |-> throwsAt],
     throws |-> FALSE]

Weekly == 7 * 24 * 60

Daily == 24 * 60

\* the VEVENTs the two feeds may hold
VeventPool(source) ==
    IF source = "fable.fabtcg"
    THEN { SingleVevent(<<"c", "c">>, <<"F", "a", "b", "l", "e">>, Day1),
           SingleVevent(<<"c", "c">>, <<>>, Day1 + 30),
           SingleVevent(<<"l", "l">>, <<"F", "a", "b", "l", "e">>, Day1),
           SingleVevent(<<"c", "c">>, <<"F", "a", "b", "l", "e">>, Now0 + SixMonths + 10),
           RecurringVevent(<<"b", "l", "i", "t", "z">>, <<>>, Day1, Weekly, 2, 0 - 1) }
    ELSE { SingleVevent(<<"c", "c">>, <<"F", "a", "b", "l", "e">>, Day1),
           SingleVevent(<<"l", "l">>, <<>>, Day1 + 60) }

\* the most VEVENTs one feed holds
MaxVevents == 2

VeventLists(source) == UNION {[1..n -> VeventPool(source)] : n \in 0..MaxVevents}

\* what fetching one feed gives: a failed response, an exception, or a text
FeedFetches(source) ==
    {[kind |-> "notok"], [kind |-> "throws"],
     [kind |-> "ok", icalText |-> [parseable |-> FALSE, vevents |-> <<>>]]}
    \cup {[kind |-> "ok", icalText |-> [parseable |-> TRUE, vevents |-> vs]] :
            vs \in VeventLists(source)}

ApiRecord(distance, distance_unit, start_time, nickname, organiser_name, address, format_name, tournament_type) ==
    [distance |-> distance, distance_unit |-> distance_unit,
     start_time |-> start_time, nickname |-> nickname,
     organiser_name |-> organiser_name, address |-> address,
     format_name |-> format_name, tournament_type |-> tournament_type,
     description |-> <<>>, throws |-> FALSE]

ApiRecordPool ==
    { ApiRecord(5, "km", IsoTime(Day1), <<"A", "r", "m", "o", "r", "y">>, <<"C", "a", "r", "d", "o", "n">>, <<"c", "a", "r", "d", "o", "n">>,
                <<>>, <<"A", "r", "m", "o", "r", "y">>),
      ApiRecord(5, "km", IsoTime(Day1 + 10), <<"A", "r", "m", "o", "r", "y">>, <<"C", "a", "r", "d", "o", "n">>, <<"c", "a", "r", "d", "o", "n">>,
                <<>>, <<"A", "r", "m", "o", "r", "y">>),
      ApiRecord(3, "km", IsoTime(Day1 + 5), <<"c", "c">>, <<"F", "a", "b", "l", "e">>, <<"f", "a", "b", "l", "e">>,
                <<"C", "l", "a", "s", "s", "i", "c", " ", "C", "o", "n", "s", "t", "r", "u", "c", "t", "e", "d">>, <<"A", "r", "m", "o", "r", "y">>),
      ApiRecord(40, "mi", IsoTime(Day1), <<"c", "c">>, <<"F", "a", "r">>, <<"f", "a", "b", "l", "e">>,
                <<"C", "l", "a", "s", "s", "i", "c", " ", "C", "o", "n", "s", "t", "r", "u", "c", "t", "e", "d">>, <<"A", "r", "m", "o", "r", "y">>) }

\* the most records one page holds, and the most pages the API serves
MaxResults == 1

MaxPages == 2

ApiResultLists == UNION {[1..n -> ApiRecordPool] : n \in 0..MaxResults}

\* what requesting one page gives: a non-OK response, an exception, or data
ApiResponses ==
    {[kind |-> "notok"], [kind |-> "throws"],
     [kind |-> "ok", isArray |-> FALSE, results |-> <<>>, next |-> FALSE]}
    \cup {[kind |-> "ok", isArray |-> TRUE, results |-> rs, next |-> nx] :
            rs \in ApiResultLists, nx \in BOOLEAN}

(***************************************************************************)
(* The scheduled run: scheduled() of index.ts and main() of local.ts       *)
(***************************************************************************)

Init ==
    /\ pc = "scrape"
    /\ clock = Now0
    /\ env \in EnvModes
    /\ officialEvents = <<>>
    /\ currentPage = 1
    /\ feedIdx = 1
    /\ allExternalEvents = <<>>
    /\ uniqueEvents = <<>>
    /\ duplicateCount = [removed |-> 0, kept |-> 0]
    /\ mergeNow = 0
    /\ probe = [op |-> "none"]

\* one iteration of the while (hasMorePages) loop of scrapeEventFinder,
\* with the response to the request of the page
ScrapePageWith(response) ==
    /\ pc = "scrape"
    /\ IF response.kind # "ok"
       THEN /\ pc' = "fetch"
            /\ UNCHANGED <<officialEvents, currentPage>>
       ELSE /\ officialEvents' =
                  officialEvents \o
                  (IF response.isArray
                   THEN ScrapeResultsFrom(response.results, 1) ELSE <<>>)
            /\ currentPage' = IF response.next THEN currentPage + 1
                                               ELSE currentPage
            /\ pc' = IF response.next THEN "scrape" ELSE "fetch"
    /\ UNCHANGED <<clock, env, feedIdx, allExternalEvents, uniqueEvents,
                   duplicateCount, mergeNow, probe>>

\* the API serves at most MaxPages pages
ScrapePage ==
    \E response \in ApiResponses :
       /\ (response.kind = "ok" /\ response.next) => currentPage < MaxPages
       /\ ScrapePageWith(response)

\* a feed that fails ends the loop over the feeds
FetchFeedWith_abortOnFailure(fetched, elapsed) ==
    /\ pc = "fetch"
    /\ clock' = clock + elapsed
    /\ allExternalEvents' =
          IF fetched.kind = "ok"
          THEN allExternalEvents \o
               parseICalEvents(fetched.icalText, EXTERNAL_ICAL_FEEDS[feedIdx],
                               env, clock')
          ELSE allExternalEvents
    /\ feedIdx' = IF fetched.kind = "ok" THEN feedIdx + 1
                  ELSE Len(EXTERNAL_ICAL_FEEDS) + 1
    /\ pc' = IF feedIdx' > Len(EXTERNAL_ICAL_FEEDS) THEN "merge" ELSE "fetch"
    /\ UNCHANGED <<env, officialEvents, currentPage, uniqueEvents, duplicateCount,
                   mergeNow, probe>>

\* one iteration of the loop over EXTERNAL_ICAL_FEEDS of fetchExternalEvents,
\* with what the fetch of the feed gives and the minutes it takes
FetchFeedWith(fetched, elapsed) ==
    /\ pc = "fetch"
    /\ clock' = clock + elapsed
    /\ allExternalEvents' =
          IF fetched.kind = "ok"
          THEN allExternalEvents \o
               parseICalEvents(fetched.icalText, EXTERNAL_ICAL_FEEDS[feedIdx],
                               env, clock')
          ELSE allExternalEvents
    /\ feedIdx' = feedIdx + 1
    /\ pc' = IF feedIdx = Len(EXTERNAL_ICAL_FEEDS) THEN "merge" ELSE "fetch"
    /\ UNCHANGED <<env, officialEvents, currentPage, uniqueEvents, duplicateCount,
                   mergeNow, probe>>

FetchFeed ==
    /\ pc = "fetch"
    /\ \E fetched \in FeedFetches(EXTERNAL_ICAL_FEEDS[feedIdx]), elapsed \in 0..MaxElapsed :
          FetchFeedWith(fetched, elapsed)

\* removeDuplicateEvents(officialEvents, externalEvents)
Merge ==
    /\ pc = "merge"
    /\ LET r == removeDuplicateEvents(officialEvents, allExternalEvents, clock)
       IN /\ uniqueEvents' = r.uniqueEvents
          /\ duplicateCount' = r.duplicateCount
    /\ mergeNow' = clock
    /\ pc' = "done"
    /\ UNCHANGED <<clock, env, officialEvents, currentPage, feedIdx,
                   allExternalEvents, probe>>

Next == ScrapePage \/ FetchFeed \/ Merge

Spec == Init /\ [][Next]_vars

(***************************************************************************)
(* One call of calculateStringSimilarity on bounded strings                *)
(***************************************************************************)

MaxStrLen == 3

SimAlphabet == {"a", "b"}

SimStrings == UNION {[1..n -> SimAlphabet] : n \in 0..MaxStrLen}

PipelineIdle ==
    /\ pc = "idle"
    /\ clock = 0
    /\ env = "undefined"
    /\ officialEvents = <<>>
    /\ currentPage = 1
    /\ feedIdx = 1
    /\ allExternalEvents = <<>>
    /\ uniqueEvents = <<>>
    /\ duplicateCount = [removed |-> 0, kept |-> 0]
    /\ mergeNow = 0

InitSim ==
    /\ PipelineIdle
    /\ \E a \in SimStrings, b \in SimStrings :
          probe = [op |-> "similarity", str1 |-> a, str2 |-> b, done |-> FALSE]

CallSimilarity ==
    /\ probe.op = "similarity"
    /\ ~probe.done
    /\ probe' = [probe EXCEPT !.done = TRUE] @@
                 [result |-> calculateStringSimilarity(probe.str1, probe.str2)]
    /\ UNCHANGED pipelineVars

NextSim == CallSimilarity

SpecSim == InitSim /\ [][NextSim]_vars

(***************************************************************************)
(* One call of isDuplicateEvent on a pair of events                        *)
(***************************************************************************)

CC == <<"C", "l", "a", "s", "s", "i", "c", " ", "C", "o", "n", "s", "t", "r", "u", "c", "t", "e", "d">>

\* a non-game keyword in the format only, in upper case
D_closedFormat == FaBEvent(<<"c", "c", "@", "F", "a", "b", "l", "e">>, CC, DateOf(Day1), <<"F", "a", "b", "l", "e">>, <<"C", "L", "O", "S", "E", "D">>, <<>>)

\* a Japanese non-game keyword in the title
D_holiday == FaBEvent(<<"u4f11", "u307f", "@", "F", "a", "b", "l", "e">>, CC, DateOf(Day1), <<"F", "a", "b", "l", "e">>, CC, <<>>)

\* the venue in the location only
D_shopAtFable == FaBEvent(<<"c", "c", "@", "S", "h", "o", "p">>, CC, DateOf(Day1), <<"F", "a", "b", "l", "e">>, CC, <<>>)

\* the venue in the title, and a location that names none
D_fableElsewhere == FaBEvent(<<"c", "c", "@", "F", "a", "b", "l", "e">>, CC, DateOf(Day1), <<"S", "h", "i", "b", "u", "y", "a">>, CC, <<>>)

\* the title, start and venue of the first event of the pool, another
\* eventType and another format
D_ccUnknown == FaBEvent(<<"c", "c", "@", "F", "a", "b", "l", "e">>, <<"A", "r", "m", "o", "r", "y">>, DateOf(Day1), <<"F", "a", "b", "l", "e">>, <<"U", "n", "k", "n", "o", "w", "n">>, <<>>)

\* titles at similarity 6/12, formats apart, no keyword
D_sealed == FaBEvent(<<"S", "e", "a", "l", "e", "d", "@", "F", "a", "b", "l", "e">>, <<"S", "e", "a", "l", "e", "d">>, DateOf(Day1), <<"F", "a", "b", "l", "e">>, <<"S", "e", "a", "l", "e", "d">>, <<>>)

D_sealedUnknown == FaBEvent(<<"@", "F", "a", "b", "l", "e">>, <<"s", "e", "a", "l", "e", "d">>, DateOf(Day1), <<"F", "a", "b", "l", "e">>, <<"U", "n", "k", "n", "o", "w", "n">>, <<>>)

\* beside D_sealed: formats at similarity 6/11
D_sealedDeck == FaBEvent(<<"@", "F", "a", "b", "l", "e">>, <<"S", "e", "a", "l", "e", "d">>, DateOf(Day1), <<"F", "a", "b", "l", "e">>, <<"S", "e", "a", "l", "e", "d", " ", "D", "e", "c", "k">>, <<>>)

\* no format at all, titles and eventTypes apart
D_meetup == FaBEvent(<<"M", "e", "e", "t", "u", "p", "@", "F", "a", "b", "l", "e">>, <<"M", "e", "e", "t", "u", "p">>, DateOf(Day1), <<"F", "a", "b", "l", "e">>, <<>>, <<>>)

D_openPlay == FaBEvent(<<"O", "p", "e", "n", " ", "p", "l", "a", "y", " ", "n", "i", "g", "h", "t", "@", "F", "a", "b", "l", "e">>, <<"C", "a", "s", "u", "a", "l">>, DateOf(Day1 + 10), <<"F", "a", "b", "l", "e">>, <<>>, <<>>)

\* beside 'Armory@Cardon': the keyword 'armory', titles and formats apart
D_fridayArmory == FaBEvent(<<"F", "r", "i", "d", "a", "y", " ", "e", "v", "e", "n", "i", "n", "g", " ", "a", "r", "m", "o", "r", "y", "@", "C", "a", "r", "d", "o", "n">>, <<"A", "r", "m", "o", "r", "y">>, DateOf(Day1), <<"c", "a", "r", "d", "o", "n">>, <<"u", "n", "k", "n", "o", "w", "n">>, <<>>)

DupPool ==
    { FaBEvent(<<"c", "c", "@", "F", "a", "b", "l", "e">>, CC, DateOf(Day1), <<"F", "a", "b", "l", "e">>, CC, <<>>),
      FaBEvent(<<"c", "c", "@", "F", "a", "b", "l", "e">>, CC, DateOf(Day1 + 30), <<>>, CC, <<>>),
      FaBEvent(<<"c", "c", "@", "F", "a", "b", "l", "e">>, CC, DateOf(Day1 + 45), <<>>, CC, <<>>),
      FaBEvent(<<"A", "r", "m", "o", "r", "y", "@", "F", "a", "b", "l", "e">>, <<"A", "r", "m", "o", "r", "y">>, DateOf(Day1 + 10), <<"f", "a", "b", "l", "e", " ", "t", "o", "k", "y", "o">>, CC, <<>>),
      FaBEvent(<<"A", "r", "m", "o", "r", "y", "@", "C", "a", "r", "d", "o", "n">>, <<"A", "r", "m", "o", "r", "y">>, DateOf(Day1), <<"c", "a", "r", "d", "o", "n">>, <<"A", "r", "m", "o", "r", "y">>, <<>>),
      FaBEvent(<<"A", "r", "m", "o", "r", "y", " ", "N", "i", "g", "h", "t", "@", "C", "a", "r", "d", "o", "n">>, <<"a", "r", "m", "o", "r", "y">>, DateOf(Day1 + 10), <<"C", "a", "r", "d", "o", "n", " ", "S", "h", "o", "p">>,
               <<"U", "n", "k", "n", "o", "w", "n">>, <<>>),
      FaBEvent(<<"x", "y", "z", "@", "C", "a", "r", "d", "o", "n">>, <<"A", "r", "m", "o", "r", "y">>, InvalidDate, <<"c", "a", "r", "d", "o", "n">>, <<"S", "e", "a", "l", "e", "d">>, <<>>),
      FaBEvent(<<"c", "l", "o", "s", "e", "d", "@", "F", "a", "b", "l", "e">>, CC, DateOf(Day1), <<"F", "a", "b", "l", "e">>, CC, <<>>),
      FaBEvent(<<"l", "l", "@", "F", "a", "b", "l", "e">>, <<"L", "i", "v", "i", "n", "g", " ", "L", "e", "g", "e", "n", "d">>, DateOf(Day1), <<"F", "a", "b", "l", "e">>,
               <<"L", "i", "v", "i", "n", "g", " ", "L", "e", "g", "e", "n", "d">>, <<>>),
      FaBEvent(<<"l", "l", "@", "T", "o", "k", "y", "o", " ", "F", "A", "B">>, <<"L", "i", "v", "i", "n", "g", " ", "L", "e", "g", "e", "n", "d">>, DateOf(Day1 + 20), <<"F", "a", "b", "l", "e">>,
               <<"L", "i", "v", "i", "n", "g", " ", "L", "e", "g", "e", "n", "d">>, <<>>),
      D_closedFormat, D_holiday, D_shopAtFable, D_fableElsewhere,
      D_ccUnknown, D_sealed, D_sealedUnknown, D_sealedDeck, D_meetup, D_openPlay,
      D_fridayArmory }

InitDup ==
    /\ PipelineIdle
    /\ \E a \in DupPool, b \in DupPool :
          probe = [op |-> "isDuplicate", event1 |-> a, event2 |-> b, done |-> FALSE]

\* isDuplicateEvent(event1, event2) and isDuplicateEvent(event2, event1)
CallIsDuplicate ==
    /\ probe.op = "isDuplicate"
    /\ ~probe.done
    /\ probe' = [probe EXCEPT !.done = TRUE] @@
                 [result12 |-> isDuplicateEvent(probe.event1, probe.event2),
                  result21 |-> isDuplicateEvent(probe.event2, probe.event1)]
    /\ UNCHANGED pipelineVars

NextDup == CallIsDuplicate

SpecDup == InitDup /\ [][NextDup]_vars

(***************************************************************************)
(* One call of removeDuplicateExternalEvents on a list of events           *)
(***************************************************************************)

\* beside 'll@Fable': the keyword 'll' in both titles, the same start and
\* venue, another eventType and another format
E_blitzLL == FaBEvent(<<"b", "l", "i", "t", "z", " ", "l", "l", "@", "F", "a", "b", "l", "e">>, <<"B", "l", "i", "t", "z">>, DateOf(Day1), <<"F", "a", "b", "l", "e">>, <<"B", "l", "i", "t", "z">>, <<>>)

DedupPool ==
    { FaBEvent(<<"c", "c", "@", "F", "a", "b", "l", "e">>, CC, DateOf(Day1), <<"F", "a", "b", "l", "e">>, CC, <<>>),
      FaBEvent(<<"c", "c", "@", "F", "a", "b", "l", "e">>, CC, DateOf(Day1 + 30), <<>>, CC, <<>>),
      FaBEvent(<<"c", "c", "@", "F", "a", "b", "l", "e">>, CC, DateOf(Day1 + 60), <<>>, CC, <<>>),
      FaBEvent(<<"l", "l", "@", "F", "a", "b", "l", "e">>, <<"L", "i", "v", "i", "n", "g", " ", "L", "e", "g", "e", "n", "d">>, DateOf(Day1), <<"F", "a", "b", "l", "e">>,
               <<"L", "i", "v", "i", "n", "g", " ", "L", "e", "g", "e", "n", "d">>, <<>>),
      E_blitzLL }

\* the longest list handed to removeDuplicateExternalEvents
MaxDedupLen == 3

InitDedup ==
    /\ PipelineIdle
    /\ \E n \in 0..MaxDedupLen :
          \E events \in [1..n -> DedupPool] :
             probe = [op |-> "dedup", events |-> events, done |-> FALSE]

CallRemoveDuplicateExternalEvents ==
    /\ probe.op = "dedup"
    /\ ~probe.done
    /\ probe' = [probe EXCEPT !.done = TRUE] @@
                 [result |-> removeDuplicateExternalEvents(probe.events)]
    /\ UNCHANGED pipelineVars

NextDedup == CallRemoveDuplicateExternalEvents

SpecDedup == InitDedup /\ [][NextDedup]_vars

(***************************************************************************)
(* removeDuplicateEvents(official, external), and then                     *)
(* removeDuplicateEvents([], result) with the same now                     *)
(***************************************************************************)

X_lo == FaBEvent(<<"c", "c", "@", "F", "a", "b", "l", "e">>, CC, DateOf(Now0 - OneMonth), <<"F", "a", "b", "l", "e">>, CC, <<>>)

X_hi == FaBEvent(<<"c", "c", "@", "F", "a", "b", "l", "e">>, CC, DateOf(Now0 + SixMonths), <<"F", "a", "b", "l", "e">>, CC, <<>>)

X_below == FaBEvent(<<"c", "c", "@", "F", "a", "b", "l", "e">>, CC, DateOf(Now0 - OneMonth - 1), <<"F", "a", "b", "l", "e">>, CC, <<>>)

X_above == FaBEvent(<<"c", "c", "@", "F", "a", "b", "l", "e">>, CC, DateOf(Now0 + SixMonths + 1), <<"F", "a", "b", "l", "e">>, CC, <<>>)

\* within 30 minutes of X_lo and not of X_below
O_lo == FaBEvent(<<"A", "r", "m", "o", "r", "y", "@", "F", "a", "b", "l", "e">>, <<"A", "r", "m", "o", "r", "y">>, DateOf(Now0 - OneMonth + 30),
                 <<"f", "a", "b", "l", "e", " ", "t", "o", "k", "y", "o">>, CC, <<>>)

\* within 30 minutes of X_above and not of X_hi
O_above == FaBEvent(<<"A", "r", "m", "o", "r", "y", "@", "F", "a", "b", "l", "e">>, <<"A", "r", "m", "o", "r", "y">>, DateOf(Now0 + SixMonths + 31),
                    <<"f", "a", "b", "l", "e", " ", "t", "o", "k", "y", "o">>, CC, <<>>)

O_cardon == FaBEvent(<<"A", "r", "m", "o", "r", "y", "@", "C", "a", "r", "d", "o", "n">>, <<"A", "r", "m", "o", "r", "y">>, DateOf(Day1), <<"c", "a", "r", "d", "o", "n">>,
                     <<"A", "r", "m", "o", "r", "y">>, <<>>)

ExternalPool == {X_lo, X_hi, X_below, X_above}

OfficialPool == {O_lo, O_above, O_cardon}

\* the longest lists handed to removeDuplicateEvents
MaxExternal == 3

MaxOfficial == 2

InitMerge ==
    /\ PipelineIdle
    /\ \E n \in 0..MaxExternal, m \in 0..MaxOfficial :
          \E external \in [1..n -> ExternalPool], official \in [1..m -> OfficialPool] :
             probe = [op |-> "merge", official |-> official, external |-> external,
                      now |-> Now0, calls |-> 0]

CallRemoveDuplicateEvents ==
    /\ probe.op = "merge"
    /\ probe.calls = 0
    /\ LET r == removeDuplicateEvents(probe.official, probe.external, probe.now)
       IN probe' = [probe EXCEPT !.calls = 1] @@
                   [result |-> r.uniqueEvents, duplicateCount |-> r.duplicateCount]
    /\ UNCHANGED pipelineVars

\* the result handed back as the preferred collection, with nothing to merge
CallRemoveDuplicateEventsAgain ==
    /\ probe.op = "merge"
    /\ probe.calls = 1
    /\ LET r == removeDuplicateEvents(<<>>, probe.result, probe.now)
       IN probe' = [probe EXCEPT !.calls = 2] @@ [again |-> r.uniqueEvents]
    /\ UNCHANGED pipelineVars

NextMerge == CallRemoveDuplicateEvents \/ CallRemoveDuplicateEventsAgain

SpecMerge == InitMerge /\ [][NextMerge]_vars

(***************************************************************************)
(* The expansion of one recurring VEVENT by parseICalEvents                *)
(***************************************************************************)

\* the last anchor puts the 50th daily and the 8th weekly occurrence one hour
\* before now
RecurAnchors == {Now0 - 10 * Daily, Now0, Day1, Now0 - 49 * Daily - 60}

RecurVevents ==
    { RecurringVevent(<<"b", "l", "i", "t", "z">>, <<>>, anchor, interval, count, throwsAt) :
        anchor \in RecurAnchors, interval \in {Daily, Weekly},
        count \in {0, 3}, throwsAt \in {0 - 1, 0, 2, 3, MaxOccurrences + 1} }

InitRecur ==
    /\ PipelineIdle
    /\ \E vevent \in RecurVevents, envENV \in EnvModes :
          probe = [op |-> "expand", vevent |-> vevent, envENV |-> envENV,
                   source |-> EXTERNAL_ICAL_FEEDS[1], now |-> Now0, done |-> FALSE]

\* the events the VEVENT pushes, and whether the catch block logged a warning
CallExpandRecurring ==
    /\ probe.op = "expand"
    /\ ~probe.done
    /\ probe' = [probe EXCEPT !.done = TRUE] @@
                 [events |-> ParseVevent(probe.vevent, probe.source,
                                         isCloudflareOf(probe.envENV), probe.now),
                  warned |-> ExpandAttempt(probe.vevent, probe.source,
                                           isCloudflareOf(probe.envENV),
                                           probe.now).threw]
    /\ UNCHANGED pipelineVars

NextRecur == CallExpandRecurring

SpecRecur == InitRecur /\ [][NextRecur]_vars

(***************************************************************************)
(* One VEVENT of a feed, by its title: single, recurring, and recurring    *)
(* with a rule that cannot be expanded                                     *)
(***************************************************************************)

ClassifySummaries ==
    { <<"P", "r", "o", "j", "e", "c", "t", " ", "B", "l", "u", "e">>, <<"P", "B", " ", "c", "c">>, <<"C", "l", "a", "s", "s", "i", "c", " ", "B", "l", "i", "t", "z">>, <<"C", "C", " ", "a", "r", "m", "o", "r", "y">>, <<"b", "l", "i", "t", "z", " ", "l", "l">>,
      <<"u30d6", "u30ea", "u30c3", "u30c4">>, <<"L", "i", "v", "i", "n", "g", " ", "L", "e", "g", "e", "n", "d">>, <<"H", "a", "l", "l", " ", "m", "e", "e", "t", "u", "p">>, <<"A", "r", "m", "o", "r", "y">> }

ClassifyVevents ==
    { SingleVevent(summary, <<>>, Day1) : summary \in ClassifySummaries }
       \cup { RecurringVevent(summary, <<>>, Day1, Weekly, 3, throwsAt) :
                 summary \in ClassifySummaries, throwsAt \in {0 - 1, 0} }

InitClassify ==
    /\ PipelineIdle
    /\ \E vevent \in ClassifyVevents, envENV \in EnvModes, f \in DOMAIN EXTERNAL_ICAL_FEEDS :
          probe = [op |-> "expand", vevent |-> vevent, envENV |-> envENV,
                   source |-> EXTERNAL_ICAL_FEEDS[f], now |-> Now0, done |-> FALSE]

SpecClassify == InitClassify /\ [][NextRecur]_vars

(***************************************************************************)
(* One call of parseICalEvents on a feed text, or the records of one page  *)
(* of the official API handed to the loop body of scrapeEventFinder        *)
(***************************************************************************)

V_cc == SingleVevent(<<"c", "c">>, <<"F", "a", "b", "l", "e">>, Day1)

V_ll == SingleVevent(<<"l", "l">>, <<>>, Day1 + 60)

V_grandArchive == SingleVevent(<<"G", "r", "a", "n", "d", " ", "A", "r", "c", "h", "i", "v", "e", " ", "D", "a", "y">>, <<"F", "a", "b", "l", "e">>, Day1)

V_holidayNote == [SingleVevent(<<"c", "c">>, <<"F", "a", "b", "l", "e">>, Day1 + 120) EXCEPT !.description = <<"u5b9a", "u4f11", "u65e5">>]

V_holidayWeekly == RecurringVevent(<<"u5b9a", "u4f11", "u65e5">>, <<>>, Day1, Weekly, 2, 0 - 1)

V_noSummary == SingleVevent(<<>>, <<"F", "a", "b", "l", "e">>, Day1)

V_noStart == [SingleVevent(<<"c", "c">>, <<"F", "a", "b", "l", "e">>, 0) EXCEPT !.hasStart = FALSE]

V_throws == [SingleVevent(<<"c", "c">>, <<"F", "a", "b", "l", "e">>, Day1) EXCEPT !.throws = TRUE]

V_blitzWeekly == RecurringVevent(<<"b", "l", "i", "t", "z">>, <<>>, Day1, Weekly, 2, 0 - 1)

\* anchored three hours ago: the first occurrence is past unless 9 hours
\* are added to it
V_blitzStarted == RecurringVevent(<<"b", "l", "i", "t", "z">>, <<"F", "a", "b", "l", "e">>, Now0 - 3 * 60, Weekly, 2, 0 - 1)

IngestVevents ==
    {V_cc, V_ll, V_grandArchive, V_holidayNote, V_holidayWeekly, V_noSummary,
     V_noStart, V_throws, V_blitzWeekly, V_blitzStarted}

\* records that differ in distance only; the address names the distance
R_km50 == ApiRecord(50, "km", IsoTime(Day1), <<"A", "r", "m", "o", "r", "y">>, <<"C", "a", "r", "d", "o", "n">>, <<"k", "m", "5", "0">>, <<>>, <<"A", "r", "m", "o", "r", "y">>)

R_km51 == ApiRecord(51, "km", IsoTime(Day1), <<"A", "r", "m", "o", "r", "y">>, <<"C", "a", "r", "d", "o", "n">>, <<"k", "m", "5", "1">>, <<>>, <<"A", "r", "m", "o", "r", "y">>)

R_mi31 == ApiRecord(31, "mi", IsoTime(Day1), <<"A", "r", "m", "o", "r", "y">>, <<"C", "a", "r", "d", "o", "n">>, <<"m", "i", "3", "1">>, <<>>, <<"A", "r", "m", "o", "r", "y">>)

R_mi32 == ApiRecord(32, "mi", IsoTime(Day1), <<"A", "r", "m", "o", "r", "y">>, <<"C", "a", "r", "d", "o", "n">>, <<"m", "i", "3", "2">>, <<>>, <<"A", "r", "m", "o", "r", "y">>)

R_mi40 == ApiRecord(40, "mi", IsoTime(Day1), <<"A", "r", "m", "o", "r", "y">>, <<"C", "a", "r", "d", "o", "n">>, <<"m", "i", "4", "0">>, <<>>, <<"A", "r", "m", "o", "r", "y">>)

\* no distance_unit, and no distance
R_noUnit60 == ApiRecord(60, "", IsoTime(Day1), <<"A", "r", "m", "o", "r", "y">>, <<"C", "a", "r", "d", "o", "n">>, <<"u", "6", "0">>, <<>>, <<"A", "r", "m", "o", "r", "y">>)

R_noDistance == ApiRecord(0, "mi", IsoTime(Day1), <<"A", "r", "m", "o", "r", "y">>, <<"C", "a", "r", "d", "o", "n">>, <<"m", "i", "0">>, <<>>, <<"A", "r", "m", "o", "r", "y">>)

R_throws == [R_km50 EXCEPT !.throws = TRUE, !.address = <<"t", "h", "r", "o", "w", "s">>]

\* records 5 km away that differ in the fields the title, the eventType and
\* the start are made of
R_fields ==
    { ApiRecord(5, "km", start_time, nickname, organiser_name, <<"c", "a", "r", "d", "o", "n">>, <<>>, tournament_type) :
        start_time \in {IsoTime(Day1), BadStartTime, NullStartTime, NoStartTime},
        nickname \in {<<>>, <<"A", "r", "m", "o", "r", "y">>},
        organiser_name \in {<<>>, <<"C", "a", "r", "d", "o", "n">>},
        tournament_type \in {<<>>, <<"A", "r", "m", "o", "r", "y">>} }

IngestRecords ==
    {R_km50, R_km51, R_mi31, R_mi32, R_mi40, R_noUnit60, R_noDistance, R_throws}
    \cup R_fields

\* the most VEVENTs of the feed text, and the most records of the page
MaxIngestVevents == 2

MaxIngestRecords == 2

InitIngest ==
    /\ PipelineIdle
    /\ \E envENV \in EnvModes :
          \/ \E n \in 0..MaxIngestVevents :
                \E vevents \in [1..n -> IngestVevents] :
                   probe = [op |-> "parse", envENV |-> envENV,
                            source |-> EXTERNAL_ICAL_FEEDS[1], now |-> Now0,
                            icalText |-> [parseable |-> TRUE, vevents |-> vevents],
                            done |-> FALSE]
          \/ \E n \in 0..MaxIngestRecords :
                \E results \in [1..n -> IngestRecords] :
                   probe = [op |-> "scrape", envENV |-> envENV,
                            results |-> results, done |-> FALSE]

\* parseICalEvents(icalText, source, env): the events pushed, and the
\* uniqueEvents returned
CallParseICalEvents ==
    /\ probe.op = "parse"
    /\ ~probe.done
    /\ probe' = [probe EXCEPT !.done = TRUE] @@
                 [events |-> ParseVeventsFrom(probe.icalText.vevents, probe.source,
                                              isCloudflareOf(probe.envENV),
                                              probe.now, 1),
                  result |-> parseICalEvents(probe.icalText, probe.source,
                                             probe.envENV, probe.now)]
    /\ UNCHANGED pipelineVars

\* the for loop over data.results of one page
CallScrapeResults ==
    /\ probe.op = "scrape"
    /\ ~probe.done
    /\ probe' = [probe EXCEPT !.done = TRUE] @@
                 [events |-> ScrapeResultsFrom(probe.results, 1)]
    /\ UNCHANGED pipelineVars

NextIngest == CallParseICalEvents \/ CallScrapeResults

SpecIngest == InitIngest /\ [][NextIngest]_vars

(***************************************************************************)
(* One feed through parseICalEvents and then removeDuplicateEvents, with   *)
(* single VEVENTs that start near the two ends of the window               *)
(***************************************************************************)

\* minutes from the start of the window, and up to its end
EdgeStarts ==
    {Now0 - OneMonth - 1, Now0 - OneMonth, Now0 - OneMonth + 29, Now0 - OneMonth + 30,
     Now0 + SixMonths - 30, Now0 + SixMonths, Now0 + SixMonths + 1}

EdgeVevents == { SingleVevent(<<"c", "c">>, <<>>, start) : start \in EdgeStarts }

\* the longest feed
MaxEdgeVevents == 3

InitFeedMerge ==
    /\ PipelineIdle
    /\ \E n \in 0..MaxEdgeVevents, envENV \in {"local", "cloudflare"} :
          \E vevents \in [1..n -> EdgeVevents] :
             probe = [op |-> "feed", envENV |-> envENV,
                      source |-> EXTERNAL_ICAL_FEEDS[1], now |-> Now0,
                      icalText |-> [parseable |-> TRUE, vevents |-> vevents],
                      stage |-> "fetched"]

\* parseICalEvents(icalText, source, env): the events pushed, and the
\* uniqueEvents returned
CallParseFeed ==
    /\ probe.op = "feed"
    /\ probe.stage = "fetched"
    /\ probe' = [probe EXCEPT !.stage = "parsed"] @@
                 [events |-> ParseVeventsFrom(probe.icalText.vevents, probe.source,
                                              isCloudflareOf(probe.envENV),
                                              probe.now, 1),
                  result |-> parseICalEvents(probe.icalText, probe.source,
                                             probe.envENV, probe.now)]
    /\ UNCHANGED pipelineVars

\* removeDuplicateEvents(officialEvents, externalEvents) of the run, the
\* official source giving nothing or one event near the start of the window
CallMergeFeed ==
    /\ probe.op = "feed"
    /\ probe.stage = "parsed"
    /\ \E official \in {<<>>, <<O_lo>>} :
          probe' = [probe EXCEPT !.stage = "merged"] @@
                    [official |-> official,
                     final |-> removeDuplicateEvents(official, probe.result,
                                                     probe.now).uniqueEvents]
    /\ UNCHANGED pipelineVars

NextFeedMerge == CallParseFeed \/ CallMergeFeed

SpecFeedMerge == InitFeedMerge /\ [][NextFeedMerge]_vars

(***************************************************************************)
(* One scheduled run whose inputs are fixed when it starts: the responses  *)
(* to the page requests of scrapeEventFinder and what the fetch of each    *)
(* feed gives, with failures at the level of a record, a feed and the API  *)
(***************************************************************************)

\* the most records of a page, VEVENTs of a feed and pages of the run
MaxRunRecords == 2

MaxRunVevents == 2

MaxRunPages == 2

RunApiResponses ==
    {[kind |-> "notok"], [kind |-> "throws"],
     [kind |-> "ok", isArray |-> FALSE, results |-> <<>>, next |-> FALSE]}
    \cup {[kind |-> "ok", isArray |-> TRUE, results |-> rs, next |-> nx] :
            rs \in UNION {[1..n -> {R_km50, R_throws}] : n \in 0..MaxRunRecords},
            nx \in BOOLEAN}

\* the pages the run requests: every page but the last is served with a
\* next link
RunPageSequences ==
    {pages \in UNION {[1..n -> RunApiResponses] : n \in 1..MaxRunPages} :
        \A i \in DOMAIN pages :
           (pages[i].kind = "ok" /\ pages[i].next) <=> i < Len(pages)}

RunFeedFetches ==
    {[kind |-> "notok"], [kind |-> "throws"],
     [kind |-> "ok", icalText |-> [parseable |-> FALSE, vevents |-> <<>>]]}
    \cup {[kind |-> "ok", icalText |-> [parseable |-> TRUE, vevents |-> vs]] :
            vs \in UNION {[1..n -> {V_cc, V_throws}] : n \in 0..MaxRunVevents}}

InitRun ==
    /\ pc = "scrape"
    /\ clock = Now0
    /\ env = "local"
    /\ officialEvents = <<>>
    /\ currentPage = 1
    /\ feedIdx = 1
    /\ allExternalEvents = <<>>
    /\ uniqueEvents = <<>>
    /\ duplicateCount = [removed |-> 0, kept |-> 0]
    /\ mergeNow = 0
    /\ \E pages \in RunPageSequences,
          feeds \in [1..Len(EXTERNAL_ICAL_FEEDS) -> RunFeedFetches] :
          probe = [op |-> "run", pages |-> pages, feeds |-> feeds]

RunScrapePage == probe.op = "run" /\ ScrapePageWith(probe.pages[currentPage])

RunFetchFeed == probe.op = "run" /\ FetchFeedWith(probe.feeds[feedIdx], 0)

RunMerge == probe.op = "run" /\ Merge

NextRun == RunScrapePage \/ RunFetchFeed \/ RunMerge

SpecRun == InitRun /\ [][NextRun]_vars

(***************************************************************************)
(* The while (hasMorePages) loop of scrapeEventFinder against an API that  *)
(* serves some pages and then either refuses the next page or goes on      *)
(* serving empty pages with a next link.  An iteration is two steps: the   *)
(* request (await fetch) and the handling of the response.                 *)
(***************************************************************************)

\* the longest list of pages the API serves before it refuses or repeats
MaxPagingPages == 2

\* currentPage is followed up to PageCap, beyond every page that differs
\* from the next one (a JS number stops growing at 2^53)
PageCap == MaxPagingPages + 2

PagingResponses ==
    {[kind |-> "notok"], [kind |-> "throws"],
     [kind |-> "ok", isArray |-> FALSE, results |-> <<>>, next |-> TRUE]}
    \cup {[kind |-> "ok", isArray |-> TRUE, results |-> rs, next |-> nx] :
            rs \in {<<>>, <<R_km50>>}, nx \in BOOLEAN}

\* results: [] with a next link
EmptyPageWithNext == [kind |-> "ok", isArray |-> TRUE, results |-> <<>>, next |-> TRUE]

\* what the fetch of the page gives
ResponseTo(api, page) ==
    IF page <= Len(api.served) THEN api.served[page]
    ELSE IF api.endless THEN EmptyPageWithNext
    ELSE [kind |-> "notok"]

InitPaging ==
    /\ pc = "scrape"
    /\ clock = Now0
    /\ env = "local"
    /\ officialEvents = <<>>
    /\ currentPage = 1
    /\ feedIdx = 1
    /\ allExternalEvents = <<>>
    /\ uniqueEvents = <<>>
    /\ duplicateCount = [removed |-> 0, kept |-> 0]
    /\ mergeNow = 0
    /\ \E n \in 0..MaxPagingPages, endless \in BOOLEAN :
          \E served \in [1..n -> PagingResponses] :
             probe = [op |-> "paging", served |-> served, endless |-> endless,
                      awaiting |-> FALSE, requested |-> 0]

\* fetch(`${apiUrl}?${params}`) with page: currentPage.toString()
RequestPage ==
    /\ probe.op = "paging"
    /\ pc = "scrape"
    /\ ~probe.awaiting
    /\ probe' = [probe EXCEPT !.awaiting = TRUE, !.requested = currentPage]
    /\ UNCHANGED pipelineVars

\* a page that fails is skipped and the next one requested
ReceivePageWith_skipFailedPage(response) ==
    /\ probe.op = "paging"
    /\ pc = "scrape"
    /\ probe.awaiting
    /\ probe' = [probe EXCEPT !.awaiting = FALSE]
    /\ IF response.kind # "ok"
       THEN /\ pc' = "scrape"
            /\ currentPage' = Min2(currentPage + 1, PageCap)
            /\ UNCHANGED officialEvents
       ELSE /\ officialEvents' =
                  officialEvents \o
                  (IF response.isArray
                   THEN ScrapeResultsFrom(response.results, 1) ELSE <<>>)
            /\ currentPage' = IF response.next THEN Min2(currentPage + 1, PageCap)
                                               ELSE currentPage
            /\ pc' = IF response.next THEN "scrape" ELSE "fetch"
    /\ UNCHANGED <<clock, env, feedIdx, allExternalEvents, uniqueEvents,
                   duplicateCount, mergeNow>>

\* the rest of the iteration, with the response to the request
ReceivePageWith(response) ==
    /\ probe.op = "paging"
    /\ pc = "scrape"
    /\ probe.awaiting
    /\ probe' = [probe EXCEPT !.awaiting = FALSE]
    /\ IF response.kind # "ok"
       THEN /\ pc' = "fetch"
            /\ UNCHANGED <<officialEvents, currentPage>>
       ELSE /\ officialEvents' =
                  officialEvents \o
                  (IF response.isArray
                   THEN ScrapeResultsFrom(response.results, 1) ELSE <<>>)
            /\ currentPage' = IF response.next THEN Min2(currentPage + 1, PageCap)
                                               ELSE currentPage
            /\ pc' = IF response.next THEN "scrape" ELSE "fetch"
    /\ UNCHANGED <<clock, env, feedIdx, allExternalEvents, uniqueEvents,
                   duplicateCount, mergeNow>>

ReceivePage == ReceivePageWith(ResponseTo(probe, probe.requested))

NextPaging == RequestPage \/ ReceivePage

\* the loop goes on as long as it has not ended: fetch resolves or rejects
SpecPaging == InitPaging /\ [][NextPaging]_vars /\ WF_vars(NextPaging)

(***************************************************************************)
(* Properties                                                              *)
(***************************************************************************)

\* the retention window of the specification: [now - 30 days, now + 180 days]
InWindow(e, now) ==
    /\ ~e.startDatetime.isNaN
    /\ now - 30 * 24 * 60 <= e.startDatetime.time
    /\ e.startDatetime.time <= now + 180 * 24 * 60

Range(seq) == {seq[i] : i \in DOMAIN seq}

MergeCalled == probe.op = "merge" /\ probe.calls >= 1

\* the result of the call: first the events taken from the external list,
\* then the duplicateCount.kept official events pushed after them
ExternalPart ==
    SubSeq(probe.result, 1, Len(probe.result) - probe.duplicateCount.kept)

OfficialPart ==
    SubSeq(probe.result, Len(probe.result) - probe.duplicateCount.kept + 1,
           Len(probe.result))

\* the external events handed in that lie in the window
InWindowExternal == SelectSeq(probe.external, LAMBDA e : InWindow(e, probe.now))

HasMatchIn(o, events) == \E k \in DOMAIN events : isDuplicateEvent(o, events[k])

(* C1 as claimed: an official event is absent from the result exactly when *)
(* some external event handed in is a duplicate match for it, and the      *)
(* official events without a match end the result in their original order. *)
C1_Original ==
    MergeCalled =>
        /\ \A i \in DOMAIN probe.official :
              (probe.official[i] \notin Range(probe.result))
                  <=> HasMatchIn(probe.official[i], probe.external)
        /\ OfficialPart =
              SelectSeq(probe.official, LAMBDA o : ~HasMatchIn(o, probe.external))

(* C1: an official event is absent from the result exactly when some       *)
(* external event that lies in the window [now - 30 days, now + 180 days]  *)
(* is a duplicate match for it; the official events without such a match   *)
(* are appended after the external events, in their original order.        *)
C1_OfficialDroppedIffInWindowMatch ==
    MergeCalled =>
        /\ \A i \in DOMAIN probe.official :
              (probe.official[i] \notin Range(probe.result))
                  <=> HasMatchIn(probe.official[i], InWindowExternal)
        /\ OfficialPart =
              SelectSeq(probe.official, LAMBDA o : ~HasMatchIn(o, InWindowExternal))
        /\ Range(ExternalPart) \subseteq Range(probe.external)

\* one official event dropped for an in-window match, one kept although an
\* out-of-window external event matches it
C1_Witness ==
    /\ MergeCalled
    /\ probe.external = <<X_lo, X_above>>
    /\ probe.official = <<O_lo, O_above>>
    /\ probe.result = <<X_lo, O_above>>

(* C2 as claimed: every external event handed to removeDuplicateEvents is  *)
(* in the returned collection.                                             *)
C2_Original ==
    MergeCalled =>
        \A k \in DOMAIN probe.external : probe.external[k] \in Range(probe.result)

(* C2: every external event handed to removeDuplicateEvents whose start    *)
(* lies in [now - 30 days, now + 180 days] is in the returned collection,  *)
(* whatever the official events are.                                       *)
C2_InWindowExternalKept ==
    MergeCalled =>
        \A k \in DOMAIN probe.external :
           InWindow(probe.external[k], probe.now)
              => probe.external[k] \in Range(ExternalPart)

\* external events kept although an official event matches one of them
C2_Witness ==
    /\ MergeCalled
    /\ probe.external = <<X_lo, X_hi>>
    /\ probe.official = <<O_lo>>
    /\ isDuplicateEvent(O_lo, X_lo)
    /\ probe.result = <<X_lo, X_hi>>

(* C4 as claimed: every event of the result, external or official, starts  *)
(* in [now - 30 days, now + 180 days].                                     *)
C4_Original ==
    MergeCalled =>
        \A j \in DOMAIN probe.result : InWindow(probe.result[j], probe.now)

(* C4: every event of the result that came from an external feed starts in *)
(* [now - 30 days, now + 180 days]; the official events of the result are  *)
(* not restricted.                                                         *)
C4_ExternalPartInWindow ==
    MergeCalled =>
        \A j \in DOMAIN ExternalPart : InWindow(ExternalPart[j], probe.now)

\* out-of-window external events dropped beside an out-of-window official
\* event that stays
C4_Witness ==
    /\ MergeCalled
    /\ probe.external = <<X_below, X_hi, X_above>>
    /\ probe.official = <<O_above>>
    /\ probe.result = <<X_hi, O_above>>

(* C5: the window filter keeps an external event iff its start lies in the *)
(* closed interval [now - 30 days, now + 180 days], keeps the order of the *)
(* kept events, and is not applied to official events: an official event   *)
(* outside the window stays unless an in-window external event matches it. *)
C5_WindowFilter ==
    MergeCalled =>
        /\ ExternalPart = InWindowExternal
        /\ \A i \in DOMAIN probe.official :
              (/\ ~InWindow(probe.official[i], probe.now)
               /\ ~HasMatchIn(probe.official[i], InWindowExternal))
                 => probe.official[i] \in Range(OfficialPart)

\* both endpoints kept in order, the event one minute late dropped, and an
\* official event outside the window kept
C5_Witness ==
    /\ MergeCalled
    /\ probe.external = <<X_lo, X_above, X_hi>>
    /\ probe.official = <<O_above>>
    /\ probe.result = <<X_lo, X_hi, O_above>>

(* C7 as claimed: removeDuplicateEvents([], R) with the same now returns   *)
(* the same set of events as R = removeDuplicateEvents(S, P).              *)
C7_Original ==
    (probe.op = "merge" /\ probe.calls = 2) =>
        Range(probe.again) = Range(probe.result)

(* C7: removeDuplicateEvents([], R) with the same now returns exactly the  *)
(* events of R whose start lies in [now - 30 days, now + 180 days], in the *)
(* order of R; it returns R itself exactly when every official event of R  *)
(* lies in that window.                                                    *)
C7_SecondMergeKeepsInWindow ==
    (probe.op = "merge" /\ probe.calls = 2) =>
        /\ probe.again = SelectSeq(probe.result, LAMBDA e : InWindow(e, probe.now))
        /\ (probe.again = probe.result)
              <=> \A j \in DOMAIN OfficialPart : InWindow(OfficialPart[j], probe.now)

\* the second call loses the official event outside the window
C7_Witness ==
    /\ probe.op = "merge"
    /\ probe.calls = 2
    /\ probe.result = <<X_hi, O_cardon, O_above>>
    /\ probe.again = <<X_hi, O_cardon>>

DedupCalled == probe.op = "dedup" /\ probe.done

\* the indices among 1..i that first-seen dedup keeps
RECURSIVE KeptUpTo(_, _)
KeptUpTo(events, i) ==
    IF i = 0 THEN {}
    ELSE LET K == KeptUpTo(events, i - 1)
         IN IF \E j \in K : isDuplicateEvent(events[i], events[j])
            THEN K ELSE K \cup {i}

\* the sub-list of events at the indices K
SubListAt(events, K) ==
    [n \in 1..Cardinality(K) |->
        events[CHOOSE i \in K : Cardinality({k \in K : k <= i}) = n]]

(* C6: removeDuplicateExternalEvents(E) is a sub-list of E, no longer than *)
(* E, in which no two events are duplicates of each other; an event is     *)
(* dropped exactly when it matches an earlier event that was kept.         *)
C6_IntraFeedDedup ==
    DedupCalled =>
        /\ Len(probe.result) <= Len(probe.events)
        /\ probe.result = SubListAt(probe.events,
                                    KeptUpTo(probe.events, Len(probe.events)))
        /\ \A a \in DOMAIN probe.result, b \in DOMAIN probe.result :
              a # b => ~isDuplicateEvent(probe.result[a], probe.result[b])

\* the second event matches the first and is dropped; the third matches only
\* the dropped one and is kept
C6_Witness ==
    /\ DedupCalled
    /\ Len(probe.events) = 3
    /\ isDuplicateEvent(probe.events[2], probe.events[1])
    /\ isDuplicateEvent(probe.events[3], probe.events[2])
    /\ probe.result = <<probe.events[1], probe.events[3]>>

IsDuplicateCalled == probe.op = "isDuplicate" /\ probe.done

(* C8: isDuplicateEvent(a, b) = isDuplicateEvent(b, a) for all events a, b *)
C8_Symmetric == IsDuplicateCalled => probe.result12 = probe.result21

\* a matching pair of different events
C8_Witness ==
    /\ IsDuplicateCalled
    /\ probe.event1.startDatetime.time < probe.event2.startDatetime.time
    /\ probe.event1.location # probe.event2.location
    /\ probe.result12

\* The unit-cost insert/delete/substitute distance, by its defining recursion
RECURSIVE editDistance(_, _)
editDistance(a, b) ==
    IF Len(a) = 0 THEN Len(b)
    ELSE IF Len(b) = 0 THEN Len(a)
    ELSE Min3(editDistance(Tail(a), b) + 1,
              editDistance(a, Tail(b)) + 1,
              editDistance(Tail(a), Tail(b)) + (IF Head(a) = Head(b) THEN 0 ELSE 1))

SimilarityCalled == probe.op = "similarity" /\ probe.done

(* C9: for all strings a and b, calculateStringSimilarity(a, b) lies in    *)
(* [0, 1], is 1 when a = b (both empty included), is 0 when exactly one of *)
(* them is empty, and is 1 - editDistance(a, b) / max(len(a), len(b))      *)
(* otherwise.                                                              *)
C9_SimilarityContract ==
    SimilarityCalled =>
        LET a == probe.str1
            b == probe.str2
            r == probe.result
            m == Max2(Len(a), Len(b))
        IN /\ r.den > 0 /\ 0 <= r.num /\ r.num <= r.den
           /\ (a = b) => r.num = r.den
           /\ ((Len(a) = 0) # (Len(b) = 0)) => r.num = 0
           /\ (a # b /\ Len(a) > 0 /\ Len(b) > 0) =>
                  r.num * m = (m - editDistance(a, b)) * r.den

\* a call where the matrix is filled and deletion is the cheapest step
C9_Witness ==
    /\ SimilarityCalled
    /\ probe.str1 = <<"a", "b", "b">>
    /\ probe.str2 = <<"a">>
    /\ probe.result = [num |-> 1, den |-> 3]

ExpandCalled == probe.op = "expand" /\ probe.done

\* the instants the rule of the VEVENT yields
OccurrenceInstants(vevent) ==
    {vevent.startDate + (k - 1) * vevent.rrule.interval : k \in 1..(MaxOccurrences + 1)}

\* + 9 hours in cloudflare mode, nothing otherwise
ModeOffset(envENV) == IF envENV = "cloudflare" THEN 9 * 60 ELSE 0

StartIsCorrectedOccurrence(e) ==
    \E t \in OccurrenceInstants(probe.vevent) :
        e.startDatetime = DateOf(t + ModeOffset(probe.envENV))

(* C10 as claimed: one recurring feed event yields at most 50 events, each *)
(* with a start >= now that is an occurrence instant of the rule, plus 9   *)
(* hours in cloudflare mode and unmodified in local mode.                  *)
C10_Original ==
    ExpandCalled =>
        /\ Len(probe.events) <= 50
        /\ \A i \in DOMAIN probe.events :
              /\ probe.events[i].startDatetime.time >= probe.now
              /\ StartIsCorrectedOccurrence(probe.events[i])

(* C10: the expansion loop of one recurring feed event yields at most 50   *)
(* events, each with a start >= now that is an occurrence instant of the   *)
(* rule, plus 9 hours in cloudflare mode and unmodified otherwise; when    *)
(* the expansion throws, one more event follows them, at the anchor start  *)
(* with the same correction, which may lie before now.                     *)
C10_ExpansionBounded ==
    ExpandCalled =>
        LET n == Len(probe.events)
            fromLoop == IF probe.warned THEN n - 1 ELSE n
        IN /\ 0 <= fromLoop /\ fromLoop <= 50
           /\ \A i \in 1..fromLoop :
                 /\ probe.events[i].startDatetime.time >= probe.now
                 /\ StartIsCorrectedOccurrence(probe.events[i])
           /\ probe.warned =>
                 probe.events[n].startDatetime =
                    DateOf(probe.vevent.startDate + ModeOffset(probe.envENV))

\* 50 occurrences emitted in cloudflare mode, then next() throws
C10_Witness ==
    /\ ExpandCalled
    /\ probe.envENV = "cloudflare"
    /\ probe.warned
    /\ Len(probe.events) = 51

(* C3 as claimed: no two distinct events of the final result of the run    *)
(* satisfy isDuplicateEvent.                                               *)
C3_DuplicateFree ==
    pc = "done" =>
        \A i \in DOMAIN uniqueEvents, j \in DOMAIN uniqueEvents :
           i # j => ~isDuplicateEvent(uniqueEvents[i], uniqueEvents[j])

\* the feed's event list when the feed holds this one VEVENT
FeedListOfVevent == removeDuplicateExternalEvents(probe.events)

(* C11 as claimed: when the expansion of a recurring feed event fails, the  *)
(* event contributes exactly one occurrence to the feed's event list, at    *)
(* the anchor start plus 9 hours in cloudflare mode and at the anchor start *)
(* otherwise, also when occurrences were emitted before the failure.        *)
C11_ExactlyOneOnFailure ==
    (ExpandCalled /\ probe.warned) =>
        /\ Len(FeedListOfVevent) = 1
        /\ FeedListOfVevent[1].startDatetime =
              DateOf(probe.vevent.startDate + ModeOffset(probe.envENV))

ParseCalled == probe.op = "parse" /\ probe.done

ScrapeCalled == probe.op = "scrape" /\ probe.done

\* the text holds, in any letter case, 'grand archive' or the closed-day word
HoldsExclusionKeyword(text) ==
    \/ includes(toLowerCase(text), <<"g", "r", "a", "n", "d", " ", "a", "r", "c", "h", "i", "v", "e">>)
    \/ includes(text, <<"u5b9a", "u4f11", "u65e5">>)

IsExcludedRecord(vevent) ==
    ~vevent.throws /\ (\/ HoldsExclusionKeyword(vevent.summary)
                       \/ HoldsExclusionKeyword(vevent.description))

\* the feed text without its excluded records
WithoutExcluded(icalText) ==
    [icalText EXCEPT !.vevents = SelectSeq(@, LAMBDA v : ~IsExcludedRecord(v))]

(* C12: a feed record whose summary or description holds, in any letter    *)
(* case, 'grand archive' or the closed-day word produces no event, and the *)
(* output of parseICalEvents is what it is for the feed without these      *)
(* records: the other records are processed, and dedup never compares      *)
(* against an excluded record.                                             *)
C12_ExcludedNeverAppears ==
    ParseCalled =>
        /\ \A i \in DOMAIN probe.result :
              /\ ~HoldsExclusionKeyword(probe.result[i].title)
              /\ ~HoldsExclusionKeyword(probe.result[i].details)
        /\ probe.result = parseICalEvents(WithoutExcluded(probe.icalText),
                                          probe.source, probe.envENV, probe.now)
        /\ (\A k \in DOMAIN probe.icalText.vevents :
               IsExcludedRecord(probe.icalText.vevents[k])) => probe.result = <<>>

\* a record excluded for its description, followed by a record that is kept
C12_Witness ==
    /\ ParseCalled
    /\ probe.icalText.vevents = <<V_holidayNote, V_cc>>
    /\ Len(probe.result) = 1
    /\ probe.result[1].startDatetime.time \in {Day1, Day1 + 9 * 60}

\* the reported distance, converted to kilometres, exceeds 50: a distance in
\* miles is multiplied by 1.60934, a distance in km (the unit of a record
\* that names none) is taken as it is
FartherThan50Km(record) ==
    IF record.distance_unit \in {"km", ""}
    THEN record.distance > 50
    ELSE record.distance * 160934 > 50 * 100000

\* the records of the page that are neither out of range nor throwing
RecordsInRange ==
    SelectSeq(probe.results, LAMBDA r : ~r.throws /\ ~FartherThan50Km(r))

EventLocations == {probe.events[i].location : i \in DOMAIN probe.events}

(* C13: an official API record is rejected exactly when its distance in    *)
(* kilometres exceeds 50, miles being multiplied by 1.60934 and kilometres *)
(* compared unchanged: 40 miles and 51 km are rejected, 31 miles and       *)
(* exactly 50 km are accepted.                                             *)
C13_DistanceFilter ==
    ScrapeCalled =>
        /\ Len(probe.events) = Len(RecordsInRange)
        /\ \A i \in DOMAIN probe.events :
              probe.events[i].location = RecordsInRange[i].address
        /\ R_mi40.address \notin EventLocations
        /\ R_km51.address \notin EventLocations
        /\ \A k \in DOMAIN probe.results :
              probe.results[k] \in {R_mi31, R_km50}
                 => probe.results[k].address \in EventLocations

\* 40 miles rejected, then exactly 50 km accepted
C13_Witness ==
    /\ ScrapeCalled
    /\ probe.results = <<R_mi40, R_km50>>
    /\ Len(probe.events) = 1
    /\ probe.events[1].location = R_km50.address

\* a record that reaches the push: not throwing, not excluded, with a
\* summary and a start
IsUsableRecord(vevent) ==
    /\ ~vevent.throws
    /\ ~IsExcludedRecord(vevent)
    /\ vevent.summary # <<>>
    /\ vevent.hasStart

\* the instants the feed gives for one usable record whose rule, if it has
\* one, ends after rrule.count occurrences and never throws: the start, or
\* the occurrences of the rule
FeedParsedInstants(vevent) ==
    IF vevent.rrule.isRecurring
    THEN [k \in 1..vevent.rrule.count |->
             vevent.startDate + (k - 1) * vevent.rrule.interval]
    ELSE <<vevent.startDate>>

\* the starts expected of the events of the records from index i on, with
\* offset added to every feed-parsed instant; an occurrence of a rule is
\* emitted when its corrected instant is not before now
RECURSIVE ExpectedFeedStarts(_, _, _, _)
ExpectedFeedStarts(vevents, offset, now, i) ==
    IF i > Len(vevents) THEN <<>>
    ELSE (IF ~IsUsableRecord(vevents[i]) THEN <<>>
          ELSE LET corrected == [k \in DOMAIN FeedParsedInstants(vevents[i]) |->
                                    FeedParsedInstants(vevents[i])[k] + offset]
               IN IF vevents[i].rrule.isRecurring
                  THEN SelectSeq(corrected, LAMBDA t : t >= now)
                  ELSE corrected)
         \o ExpectedFeedStarts(vevents, offset, now, i + 1)

\* the instant an API start_time denotes
ApiInstant(start_time) ==
    IF start_time.kind = "iso" THEN DateOf(start_time.time)
    ELSE IF start_time.kind = "null" THEN DateOf(0)
    ELSE InvalidDate

(* C14: the start of every feed-sourced event is the feed-parsed instant   *)
(* plus exactly 9 hours in 'cloudflare' mode, and the feed-parsed instant  *)
(* itself in 'local' mode and when no mode is supplied; the start of an    *)
(* official API event is the instant of its start_time in every mode.      *)
C14_OffsetGated ==
    /\ ParseCalled =>
          [i \in DOMAIN probe.events |-> probe.events[i].startDatetime]
             = [i \in DOMAIN ExpectedFeedStarts(probe.icalText.vevents,
                                                ModeOffset(probe.envENV), probe.now, 1) |->
                   DateOf(ExpectedFeedStarts(probe.icalText.vevents,
                                             ModeOffset(probe.envENV), probe.now, 1)[i])]
    /\ ScrapeCalled =>
          \A i \in DOMAIN probe.events :
             probe.events[i].startDatetime = ApiInstant(RecordsInRange[i].start_time)

\* cloudflare mode: a single event nine hours later, and a rule anchored
\* three hours ago whose first occurrence is emitted with the nine hours
C14_Witness ==
    /\ ParseCalled
    /\ probe.envENV = "cloudflare"
    /\ probe.icalText.vevents = <<V_cc, V_blitzStarted>>
    /\ Len(probe.events) = 3
    /\ probe.events[1].startDatetime = DateOf(Day1 + 9 * 60)
    /\ probe.events[2].startDatetime = DateOf(Now0 + 6 * 60)

\* a feed record with title text and start information
FeedRecordComplete(vevent) == vevent.summary # <<>> /\ vevent.hasStart

\* an API record with title text and a start_time that is a date
ApiRecordComplete(record) ==
    record.nickname # <<>> /\ record.start_time.kind = "iso"

(* C15 as claimed: a raw record with missing title text, or with missing   *)
(* or unparseable start information, yields no event, for feed records and *)
(* for official API records alike, and the other records of the batch are  *)
(* processed as they are without it.                                       *)
C15_IncompleteRecordsSkipped ==
    /\ ParseCalled =>
          probe.events =
             ParseVeventsFrom(SelectSeq(probe.icalText.vevents, FeedRecordComplete),
                              probe.source, isCloudflareOf(probe.envENV), probe.now, 1)
    /\ ScrapeCalled =>
          probe.events =
             ScrapeResultsFrom(SelectSeq(probe.results, ApiRecordComplete), 1)

(* C16 as claimed: every event produced from a feed record or from an API  *)
(* record has a non-empty title whenever its eventType is non-empty.       *)
C16_TitleWhenEventType ==
    (ParseCalled \/ ScrapeCalled) =>
        \A i \in DOMAIN probe.events :
           probe.events[i].eventType # <<>> => probe.events[i].title # <<>>

RunStarted == probe.op = "run"

IsPrefix(s, t) == Len(s) <= Len(t) /\ s = SubSeq(t, 1, Len(s))

\* the events of the records of the served pages that do not throw
RECURSIVE OfficialOfSoundRecords(_, _)
OfficialOfSoundRecords(pages, i) ==
    IF i > Len(pages) THEN <<>>
    ELSE (IF pages[i].kind = "ok" /\ pages[i].isArray
          THEN ScrapeResultsFrom(SelectSeq(pages[i].results, LAMBDA r : ~r.throws), 1)
          ELSE <<>>)
         \o OfficialOfSoundRecords(pages, i + 1)

\* the events of the records that do not throw, of the feeds that were
\* fetched and parsed
RECURSIVE ExternalOfSoundFeeds(_, _)
ExternalOfSoundFeeds(feeds, i) ==
    IF i > Len(feeds) THEN <<>>
    ELSE (IF feeds[i].kind = "ok" /\ feeds[i].icalText.parseable
          THEN parseICalEvents(
                  [feeds[i].icalText EXCEPT
                      !.vevents = SelectSeq(@, LAMBDA v : ~v.throws)],
                  EXTERNAL_ICAL_FEEDS[i], env, Now0)
          ELSE <<>>)
         \o ExternalOfSoundFeeds(feeds, i + 1)

\* a step of the run goes on to the next page or to the feeds, to the next
\* feed or to the merge, or ends the merge, whatever failed in it
StepGoesOn ==
    /\ pc = "scrape" =>
          \/ pc' = "scrape" /\ currentPage' = currentPage + 1
          \/ pc' = "fetch"
    /\ pc = "fetch" =>
          /\ feedIdx' = feedIdx + 1
          /\ pc' = IF feedIdx = Len(EXTERNAL_ICAL_FEEDS) THEN "merge" ELSE "fetch"
    /\ pc = "merge" => pc' = "done"

\* the run is done, or at a step whose input is at hand
CanGoOn ==
    \/ pc = "scrape" /\ currentPage \in DOMAIN probe.pages
    \/ pc = "fetch" /\ feedIdx \in DOMAIN probe.feeds
    \/ pc \in {"merge", "done"}

(* C17: a record that throws, a feed whose fetch fails or whose payload    *)
(* cannot be parsed, and a failing request to the official API remove no   *)
(* event already produced and leave the other records and the other        *)
(* sources processed: when the merge is reached the two collections hold   *)
(* the events of every sound record of every sound source, every step     *)
(* goes on towards the merge and none leaves the run stuck before it, and  *)
(* the result of the merge is the merge of these collections.              *)
C17_FaultIsolating ==
    /\ [][RunStarted => /\ IsPrefix(officialEvents, officialEvents')
                        /\ IsPrefix(allExternalEvents, allExternalEvents')
                        /\ StepGoesOn]_vars
    /\ [](RunStarted => CanGoOn)
    /\ []((RunStarted /\ pc \in {"merge", "done"}) =>
             /\ officialEvents = OfficialOfSoundRecords(probe.pages, 1)
             /\ allExternalEvents = ExternalOfSoundFeeds(probe.feeds, 1))
    /\ []((RunStarted /\ pc = "done") =>
             uniqueEvents =
                removeDuplicateEvents(OfficialOfSoundRecords(probe.pages, 1),
                                      ExternalOfSoundFeeds(probe.feeds, 1),
                                      mergeNow).uniqueEvents)

\* a throwing API record beside a sound one, then a failing page request; a
\* failing first feed; a throwing record beside a sound one in the second
C17_Witness ==
    /\ RunStarted
    /\ pc = "done"
    /\ Len(probe.pages) = 2
    /\ probe.pages[1].results = <<R_throws, R_km50>>
    /\ probe.pages[2].kind = "throws"
    /\ probe.feeds[1].kind = "notok"
    /\ probe.feeds[2].kind = "ok"
    /\ probe.feeds[2].icalText.vevents = <<V_throws, V_cc>>
    /\ Len(uniqueEvents) = 2
    /\ uniqueEvents[1].title = <<"c", "c", "@", "T", "o", "k", "y", "o", " ", "F", "A", "B">>
    /\ uniqueEvents[2].location = R_km50.address

\* the two starts are instants, and the minutes between them
BothStartsValid ==
    ~probe.event1.startDatetime.isNaN /\ ~probe.event2.startDatetime.isNaN

MinutesApart ==
    LET d == probe.event1.startDatetime.time - probe.event2.startDatetime.time
    IN IF d < 0 THEN 0 - d ELSE d

(* C18: isDuplicateEvent(a, b) is false whenever the two starts are more   *)
(* than 30 minutes apart; a difference of up to and including 30 minutes   *)
(* does not fail the gate: the answer is then the answer for the same two  *)
(* events starting at the same instant.                                    *)
C18_TimeGate ==
    (IsDuplicateCalled /\ BothStartsValid) =>
        /\ MinutesApart > 30 => ~probe.result12
        /\ MinutesApart <= 30 =>
              probe.result12 =
                 isDuplicateEvent([probe.event1 EXCEPT
                                      !.startDatetime = probe.event2.startDatetime],
                                  probe.event2)

\* a pair exactly 30 minutes apart that matches
C18_Witness ==
    /\ IsDuplicateCalled
    /\ BothStartsValid
    /\ MinutesApart = 30
    /\ probe.result12

\* the lowercased title or format holds a non-game keyword
IsClosedNotice(e) ==
    \E keyword \in {<<"u5b9a", "u4f11", "u65e5">>, <<"u4f11", "u307f">>, <<"u4f11", "u696d">>, <<"c", "l", "o", "s", "e", "d">>} :
        \/ includes(toLowerCase(e.title), keyword)
        \/ includes(toLowerCase(e.format), keyword)

(* C19: when the lowercased title or format of either event holds one of   *)
(* the non-game keywords, isDuplicateEvent is false for the pair in both   *)
(* orders, so that intra-feed dedup of the two keeps both and the merge of *)
(* one as official event against the other as external event keeps it.     *)
C19_NonGameNeverMatches ==
    (IsDuplicateCalled /\ (IsClosedNotice(probe.event1) \/ IsClosedNotice(probe.event2))) =>
        /\ ~probe.result12
        /\ ~probe.result21
        /\ removeDuplicateExternalEvents(<<probe.event1, probe.event2>>)
              = <<probe.event1, probe.event2>>
        /\ probe.event1 \in
              Range(removeDuplicateEvents(<<probe.event1>>, <<probe.event2>>,
                                          Now0).uniqueEvents)

\* a keyword in the format alone, in upper case, beside an event with the
\* same title, start, venue and eventType
C19_Witness ==
    /\ IsDuplicateCalled
    /\ probe.event1 = D_closedFormat
    /\ probe.event2.title = D_closedFormat.title
    /\ probe.event2.startDatetime = D_closedFormat.startDatetime
    /\ probe.event2.location = D_closedFormat.location
    /\ ~IsClosedNotice(probe.event2)
    /\ ~probe.result12

\* the lowercased location, or the lowercased title when the location is
\* empty
VenueText(e) ==
    IF e.location = <<>> THEN toLowerCase(e.title) ELSE toLowerCase(e.location)

SharesVenueToken(e1, e2) ==
    \E token \in {<<"f", "a", "b", "l", "e">>, <<"t", "o", "k", "y", "o", " ", "f", "a", "b">>, <<"c", "a", "r", "d", "o", "n">>, <<"a", "m", "e", "n", "i", "t", "y", " ", "d", "r", "e", "a", "m">>} :
        includes(VenueText(e1), token) /\ includes(VenueText(e2), token)

(* C20 as claimed: the venue gate of isDuplicateEvent passes if and only   *)
(* if some venue token occurs in the venue text of both events, the venue  *)
(* text being the lowercased location, or the lowercased title when the    *)
(* location is empty.                                                      *)
C20_VenueGate ==
    IsDuplicateCalled =>
        (isSameVenue(probe.event1, probe.event2)
            <=> SharesVenueToken(probe.event1, probe.event2))

\* the lowercased formats differ, and so do the lowercased eventTypes
FormatsAndTypesDiffer(e1, e2) ==
    /\ toLowerCase(e1.format) # toLowerCase(e2.format)
    /\ toLowerCase(e1.eventType) # toLowerCase(e2.eventType)

(* C21: two events whose lowercased formats differ and whose lowercased    *)
(* eventTypes differ are never a duplicate match, in either order and      *)
(* whatever their titles, starts and venues; the merge of one as official  *)
(* event against the other as external event keeps the official one.       *)
C21_FormatGate ==
    (IsDuplicateCalled /\ FormatsAndTypesDiffer(probe.event1, probe.event2)) =>
        /\ ~probe.result12
        /\ ~probe.result21
        /\ probe.event1 \in
              Range(removeDuplicateEvents(<<probe.event1>>, <<probe.event2>>,
                                          Now0).uniqueEvents)

\* same title with a shared keyword, same start, same venue, and only the
\* format and the eventType apart
C21_Witness ==
    /\ IsDuplicateCalled
    /\ probe.event2 = D_ccUnknown
    /\ probe.event1.title = D_ccUnknown.title
    /\ probe.event1.startDatetime = D_ccUnknown.startDatetime
    /\ probe.event1.location = D_ccUnknown.location
    /\ hasCommonKeyword(probe.event1, probe.event2)
    /\ FormatsAndTypesDiffer(probe.event1, probe.event2)
    /\ ~IsClosedNotice(probe.event1)
    /\ ~probe.result12

\* the non-game, time-proximity, venue and content-similarity gates, and
\* no format gate
PassesGatesButFormat(e1, e2) ==
    /\ ~IsClosedNotice(e1)
    /\ ~IsClosedNotice(e2)
    /\ ~timeDiffExceedsThreshold(e1, e2)
    /\ isSameVenue(e1, e2)
    /\ \/ hasCommonKeyword(e1, e2)
       \/ GreaterThanHalf(calculateStringSimilarity(toLowerCase(e1.title),
                                                    toLowerCase(e2.title)))
       \/ GreaterThanHalf(calculateStringSimilarity(toLowerCase(e1.format),
                                                    toLowerCase(e2.format)))

(* C22 as claimed: removeDuplicateExternalEvents drops the later of two    *)
(* events that pass the non-game, time-proximity, venue and                *)
(* content-similarity gates, whatever their formats and eventTypes: no two *)
(* events of its result pass the four gates.                               *)
C22_NoFormatGateInFeed ==
    DedupCalled =>
        \A i \in DOMAIN probe.result : \A j \in DOMAIN probe.result :
            i < j => ~PassesGatesButFormat(probe.result[i], probe.result[j])

\* the non-game, time-proximity, venue and format gates
PassesGates1to4(e1, e2) ==
    /\ ~IsClosedNotice(e1)
    /\ ~IsClosedNotice(e2)
    /\ ~timeDiffExceedsThreshold(e1, e2)
    /\ isSameVenue(e1, e2)
    /\ \/ toLowerCase(e1.format) = toLowerCase(e2.format)
       \/ toLowerCase(e1.eventType) = toLowerCase(e2.eventType)

\* some keyword occurs in the lowercased title or format of each event
SharesKeyword(e1, e2) ==
    \E keyword \in {<<"l", "e", "a", "r", "n", " ", "t", "o", " ", "p", "l", "a", "y">>, <<"a", "r", "m", "o", "r", "y">>, <<"b", "l", "i", "t", "z">>, <<"c", "l", "a", "s", "s", "i", "c", " ", "c", "o", "n", "s", "t", "r", "u", "c", "t", "e", "d">>, <<"p", "r", "o", " ", "q", "u", "e", "s", "t">>, <<"d", "r", "a", "f", "t">>, <<"o", "n", " ", "d", "e", "m", "a", "n", "d">>, <<"c", "c">>, <<"l", "l">>, <<"p", "b">>} :
        /\ includes(toLowerCase(e1.title), keyword) \/ includes(toLowerCase(e1.format), keyword)
        /\ includes(toLowerCase(e2.title), keyword) \/ includes(toLowerCase(e2.format), keyword)

\* twice the similarity of the lowercased strings, less one, as a fraction
\* num / den: positive iff the similarity is above 0.5, 0 iff it is 0.5
AboveHalf(str1, str2) ==
    LET sim == calculateStringSimilarity(toLowerCase(str1), toLowerCase(str2))
    IN [num |-> 2 * sim.num - sim.den, den |-> sim.den]

(* C23: for a pair that passes gates 1 to 4, isDuplicateEvent is true if   *)
(* and only if a keyword occurs in the title-or-format of both events, or  *)
(* the similarity of the lowercased titles is strictly above 0.5, or that  *)
(* of the lowercased formats is; a similarity of exactly 0.5 does not      *)
(* pass.                                                                   *)
C23_ContentGate ==
    (IsDuplicateCalled /\ PassesGates1to4(probe.event1, probe.event2)) =>
        (probe.result12 <=>
            \/ SharesKeyword(probe.event1, probe.event2)
            \/ AboveHalf(probe.event1.title, probe.event2.title).num > 0
            \/ AboveHalf(probe.event1.format, probe.event2.format).num > 0)

\* titles at exactly 0.5, formats below, no keyword: no match
C23_Witness ==
    /\ IsDuplicateCalled
    /\ PassesGates1to4(probe.event1, probe.event2)
    /\ ~SharesKeyword(probe.event1, probe.event2)
    /\ AboveHalf(probe.event1.title, probe.event2.title).num = 0
    /\ AboveHalf(probe.event1.format, probe.event2.format).num < 0
    /\ ~probe.result12

\* the non-game, time-proximity and venue gates
PassesGates1to3(e1, e2) ==
    /\ ~IsClosedNotice(e1)
    /\ ~IsClosedNotice(e2)
    /\ ~timeDiffExceedsThreshold(e1, e2)
    /\ isSameVenue(e1, e2)

(* C27: two events that pass the non-game, time-proximity and venue gates  *)
(* and have equal lowercased formats, both empty included, are a duplicate *)
(* match in either order whatever their titles and eventTypes; a pair that *)
(* passes gates 1 to 4 and is not a match has equal lowercased eventTypes  *)
(* and unequal lowercased formats.                                         *)
C27_EqualFormatsMatch ==
    IsDuplicateCalled =>
        /\ (/\ PassesGates1to3(probe.event1, probe.event2)
            /\ toLowerCase(probe.event1.format) = toLowerCase(probe.event2.format))
              => (probe.result12 /\ probe.result21)
        /\ (PassesGates1to4(probe.event1, probe.event2) /\ ~probe.result12)
              => /\ toLowerCase(probe.event1.eventType) = toLowerCase(probe.event2.eventType)
                 /\ toLowerCase(probe.event1.format) # toLowerCase(probe.event2.format)

\* both formats empty, titles at no more than 0.5, eventTypes apart, no
\* keyword: a match
C27_Witness ==
    /\ IsDuplicateCalled
    /\ PassesGates1to3(probe.event1, probe.event2)
    /\ probe.event1.format = <<>>
    /\ probe.event2.format = <<>>
    /\ toLowerCase(probe.event1.eventType) # toLowerCase(probe.event2.eventType)
    /\ AboveHalf(probe.event1.title, probe.event2.title).num <= 0
    /\ ~SharesKeyword(probe.event1, probe.event2)
    /\ probe.result12

\* the steps the loop takes on a rule that does not throw: the first 50
\* occurrences, cut at the end of the rule and at the first one later than
\* now + 180 days
StepsTaken(vevent, now) ==
    {k \in 1..50 :
        /\ vevent.rrule.count > 0 => k <= vevent.rrule.count
        /\ \A h \in 1..k :
              vevent.startDate + (h - 1) * vevent.rrule.interval <= now + 180 * 24 * 60}

\* the starts of the events, in order
StartsOf(events) == [i \in DOMAIN events |-> events[i].startDatetime.time]

\* the occurrences of the steps k..50 that are not before now, each with the
\* mode correction, in order
RECURSIVE ForwardOfNowFrom(_, _, _, _)
ForwardOfNowFrom(vevent, now, offset, k) ==
    IF k \notin StepsTaken(vevent, now) THEN <<>>
    ELSE LET occurrence == vevent.startDate + (k - 1) * vevent.rrule.interval
         IN (IF occurrence >= now THEN <<occurrence + offset>> ELSE <<>>)
               \o ForwardOfNowFrom(vevent, now, offset, k + 1)

(* C24 as claimed: the loop over a rule that does not throw stops after 50 *)
(* generated occurrences or at the first occurrence later than now + 180   *)
(* days; of the occurrences it generated, those before now are not emitted *)
(* and the others are, so that a rule whose first 50 occurrences all lie   *)
(* before now yields no events.                                            *)
C24_CapCountsEveryStep ==
    (ExpandCalled /\ ~probe.warned) =>
        /\ StartsOf(probe.events)
              = ForwardOfNowFrom(probe.vevent, probe.now, ModeOffset(probe.envENV), 1)
        /\ (\A k \in 1..50 :
               /\ k \in StepsTaken(probe.vevent, probe.now)
               /\ probe.vevent.startDate + (k - 1) * probe.vevent.rrule.interval < probe.now)
              => probe.events = <<>>

\* the class of each title of ClassifySummaries, by the first rule of the
\* list that its lowercased text matches
ExpectedEventType(summary) ==
    CASE summary = <<"P", "r", "o", "j", "e", "c", "t", " ", "B", "l", "u", "e">> -> <<"P", "r", "o", "j", "e", "c", "t", " ", "B", "l", "u", "e">>
      [] summary = <<"P", "B", " ", "c", "c">> -> <<"P", "r", "o", "j", "e", "c", "t", " ", "B", "l", "u", "e">>
      [] summary = <<"C", "l", "a", "s", "s", "i", "c", " ", "B", "l", "i", "t", "z">> -> <<"C", "l", "a", "s", "s", "i", "c", " ", "C", "o", "n", "s", "t", "r", "u", "c", "t", "e", "d">>
      [] summary = <<"C", "C", " ", "a", "r", "m", "o", "r", "y">> -> <<"C", "l", "a", "s", "s", "i", "c", " ", "C", "o", "n", "s", "t", "r", "u", "c", "t", "e", "d">>
      [] summary = <<"b", "l", "i", "t", "z", " ", "l", "l">> -> <<"B", "l", "i", "t", "z">>
      [] summary = <<"u30d6", "u30ea", "u30c3", "u30c4">> -> <<"B", "l", "i", "t", "z">>
      [] summary = <<"L", "i", "v", "i", "n", "g", " ", "L", "e", "g", "e", "n", "d">> -> <<"L", "i", "v", "i", "n", "g", " ", "L", "e", "g", "e", "n", "d">>
      [] summary = <<"H", "a", "l", "l", " ", "m", "e", "e", "t", "u", "p">> -> <<"L", "i", "v", "i", "n", "g", " ", "L", "e", "g", "e", "n", "d">>
      [] summary = <<"A", "r", "m", "o", "r", "y">> -> <<"E", "x", "t", "e", "r", "n", "a", "l", " ", "E", "v", "e", "n", "t">>

(* C25: every event a feed VEVENT yields, from the expansion loop, from    *)
(* the fallback after a failed expansion or as a single event, has the     *)
(* eventType of the first rule its lowercased title matches, in the order  *)
(* Project Blue, Classic Constructed, Blitz, Living Legend, and 'External  *)
(* Event' when none matches; its format is its eventType, except that      *)
(* eventType 'External Event' gives format 'External'.                     *)
C25_Classification ==
    ExpandCalled =>
        /\ probe.events # <<>>
        /\ \A i \in DOMAIN probe.events :
              /\ probe.events[i].eventType = ExpectedEventType(probe.vevent.summary)
              /\ probe.events[i].format =
                    IF probe.events[i].eventType = <<"E", "x", "t", "e", "r", "n", "a", "l", " ", "E", "v", "e", "n", "t">>
                    THEN <<"E", "x", "t", "e", "r", "n", "a", "l">>
                    ELSE probe.events[i].eventType

\* the fallback event of a title that matches the Classic Constructed rule
\* and the Blitz rule
C25_Witness ==
    /\ ExpandCalled
    /\ probe.vevent.summary = <<"C", "l", "a", "s", "s", "i", "c", " ", "B", "l", "i", "t", "z">>
    /\ probe.vevent.rrule.isRecurring
    /\ probe.warned
    /\ Len(probe.events) = 1
    /\ probe.events[1].eventType = <<"C", "l", "a", "s", "s", "i", "c", " ", "C", "o", "n", "s", "t", "r", "u", "c", "t", "e", "d">>
    /\ probe.events[1].format = <<"C", "l", "a", "s", "s", "i", "c", " ", "C", "o", "n", "s", "t", "r", "u", "c", "t", "e", "d">>

FeedMerged == probe.op = "feed" /\ probe.stage = "merged"

\* the event pushed i-th by the feed was dropped by the intra-feed dedup
DroppedInFeed(i) == i \notin KeptUpTo(probe.events, Len(probe.events))

(* C26 as claimed: when a feed event whose start lies in [now - 30 days,   *)
(* now + 180 days] is dropped by the intra-feed dedup, the final result of *)
(* removeDuplicateEvents holds an event that is a duplicate match for it.  *)
C26_Original ==
    FeedMerged =>
        \A i \in DOMAIN probe.events :
            (InWindow(probe.events[i], probe.now) /\ DroppedInFeed(i))
                => HasMatchIn(probe.events[i], probe.final)

(* C26: when a feed event is dropped by the intra-feed dedup, the list     *)
(* parseICalEvents returns holds a duplicate match for it, which starts    *)
(* within 30 minutes of it; the final result of removeDuplicateEvents      *)
(* holds a duplicate match for it when its start lies in                   *)
(* [now - 30 days + 30 minutes, now + 180 days - 30 minutes].              *)
C26_InnerWindowRepresented ==
    FeedMerged =>
        \A i \in DOMAIN probe.events :
            DroppedInFeed(i) =>
                /\ \E k \in DOMAIN probe.result :
                      /\ isDuplicateEvent(probe.events[i], probe.result[k])
                      /\ probe.result[k].startDatetime.time - probe.events[i].startDatetime.time
                            \in (0 - 30)..30
                /\ (/\ probe.now - 30 * 24 * 60 + 30 <= probe.events[i].startDatetime.time
                    /\ probe.events[i].startDatetime.time <= probe.now + 180 * 24 * 60 - 30)
                      => HasMatchIn(probe.events[i], probe.final)

\* a dropped event 30 minutes inside the window, whose match starts on the
\* edge of the window and is in the final result
C26_Witness ==
    /\ FeedMerged
    /\ Len(probe.events) = 2
    /\ probe.events[1].startDatetime.time = probe.now - 30 * 24 * 60
    /\ probe.events[2].startDatetime.time = probe.now - 30 * 24 * 60 + 30
    /\ DroppedInFeed(2)
    /\ probe.official = <<>>
    /\ probe.final = <<probe.events[1]>>

PagingEnded == probe.op = "paging" /\ pc # "scrape"

\* the response to the request of the page ends the loop
EndsLoop(page) ==
    LET response == ResponseTo(probe, page)
    IN ~(response.kind = "ok" /\ response.next)

\* the events of the pages first..last, the records of a page that is not
\* OK left out
RECURSIVE EventsOfPages(_, _)
EventsOfPages(first, last) ==
    IF first > last THEN <<>>
    ELSE LET response == ResponseTo(probe, first)
         IN (IF response.kind = "ok" /\ response.isArray
             THEN ScrapeResultsFrom(response.results, 1) ELSE <<>>)
               \o EventsOfPages(first + 1, last)

\* while the loop runs no page before currentPage ended it, and the events
\* are those of the pages before currentPage; once it has ended, the last
\* page requested is the first one whose response has no next value, is
\* not OK or throws, and the events are those of the pages up to it
PagingInOrder ==
    probe.op = "paging" =>
        IF pc = "scrape"
        THEN /\ \A page \in 1..(currentPage - 1) : ~EndsLoop(page)
             /\ officialEvents = EventsOfPages(1, currentPage - 1)
             /\ probe.awaiting => probe.requested = currentPage
        ELSE /\ probe.requested = currentPage
             /\ EndsLoop(currentPage)
             /\ \A page \in 1..(currentPage - 1) : ~EndsLoop(page)
             /\ officialEvents = EventsOfPages(1, currentPage)

\* a request is for page 1 or for the page after the one requested before
\* (for the same one past PageCap)
RequestsCountUp ==
    (probe.op = "paging" /\ probe'.requested # probe.requested)
        => probe'.requested = probe.requested + 1

\* every page the API serves has a next value, and it goes on serving pages
ApiNeverEnds ==
    /\ probe.op = "paging"
    /\ probe.endless
    /\ \A page \in DOMAIN probe.served : ~EndsLoop(page)

(* C28 as claimed: the loop requests the pages 1, 2, 3, ... in order and   *)
(* eventually stops, at the first page whose response has no next value,   *)
(* is not OK or throws, with the events of the pages processed so far.     *)
C28_Original ==
    /\ []PagingInOrder
    /\ [][RequestsCountUp]_vars
    /\ <>PagingEnded

(* C28: the loop requests the pages 1, 2, 3, ... in order; it stops exactly *)
(* at the first page whose response has no next value, is not OK or        *)
(* throws, and then returns the events of the pages processed so far; it   *)
(* stops if the API gives such a response, and while every page is OK and  *)
(* has a next value it goes on requesting pages and never returns.         *)
C28_StopsAtFirstEnd ==
    /\ []PagingInOrder
    /\ [][RequestsCountUp]_vars
    /\ ~ApiNeverEnds => <>PagingEnded
    /\ ApiNeverEnds => []~PagingEnded

\* two pages with a next value, then a page that is not OK: the loop has
\* ended with the events of the two pages
C28_Witness ==
    /\ PagingEnded
    /\ ~probe.endless
    /\ Len(probe.served) = 2
    /\ probe.requested = 3
    /\ ResponseTo(probe, 3).kind = "notok"
    /\ Len(officialEvents) = 2

====
